---------------------------- MODULE Spec2Model ----------------------------
(***************************************************************************)
(* Model of the 5G multi-cell experiment driver nr_multi_cell_optimized.cc *)
(* (topology synthesis, UE placement, traffic classification and rate      *)
(* allocation, telemetry callbacks, flow / cell scoring).                  *)
(*                                                                         *)
(* Units.  Lengths are integers in millimetres, trigonometric factors are  *)
(* integers in thousandths, linear SINR is an integer in thousandths, dB   *)
(* values are integers, data rates are integers in bit/s.  Quantities the  *)
(* scoring pass holds in a double are exact rationals (see "Reals").       *)
(***************************************************************************)
EXTENDS Integers, Sequences, FiniteSets, TLC

VARIABLES
    pc,                 \* position of the program / of the component under way
    numCells,           \* --numCells (and gnbNodes.GetN())
    numUEs,             \* --numUEs (and ueNodes.GetN())
    denseScenario,      \* --denseScenario
    ISD,                \* --ISD, metres
    baseHeight,         \* gNB height handed to the layout, metres
    gnbPositions,       \* the ListPositionAllocator returned by the layout
    uesPerCell,         \* DistributeUsersOptimized: per-cell quota
    cellId,             \* DistributeUsersOptimized: outer loop index
    jPlaced,            \* DistributeUsersOptimized: inner loop index j
    ueIndex,            \* DistributeUsersOptimized: next UE to place
    uePos,              \* UE index -> position last set
    setPositionCalls,   \* UE index -> number of SetPosition calls received
    placedBy,           \* history: UE index -> the cell loop or the scatter loop that placed it
    embbRatio,          \* --embbRatio, in tenths
    numEmbbUEs,         \* main: numEmbbUEs
    embbUEs,            \* main: NodeContainer embbUEs (UE indices, in order)
    urllcUEs,           \* main: NodeContainer urllcUEs (UE indices, in order)
    iLoop,              \* main: index of the classification / application loops
    perUeRateBps,       \* main: perUeRateBps
    serverApps,         \* main: the packet sinks installed, in order
    clientApps,         \* main: the traffic sources installed, in order
    g_channelMetrics,   \* IMSI -> ChannelMetrics
    g_sinrHistory,      \* IMSI -> the SINR history vector (dB)
    g_handoverAttempts,
    g_handoverSuccess,
    g_handoverFailures,
    accepted,           \* IMSI -> every dB sample the SINR callback took, in order
    lastEvent,          \* the callback delivered last, with its arguments
    eventCount,         \* number of callbacks delivered so far
    delivered,          \* IMSI -> the callbacks delivered for that UE, in order
    script,             \* the scripted event pattern under replay (<<>>: none)
    g_imsiToCell,       \* IMSI -> serving cell recorded at attach time
    g_imsiDistance,     \* IMSI -> distance to that cell, millimetres
    g_cellUeCount,      \* cell -> number of UEs recorded for it
    rounding,           \* IMSI -> cell -> rank of the double of the distance
    stats,              \* monitor->GetFlowStats(): flow id -> tuple and FlowStats
    flowPos,            \* flow loop: id of the flow the iterator stands on
    flowRows,           \* the rows written to the flow statistics file
    cellSummaries,      \* std::map cell -> CellSummary
    totalSystemThroughput,
    totalUrllcDelay,
    totalEmbbDelay,
    urllcFlows,
    embbFlows,
    maxCellThroughput,
    scoreCellId,        \* cell statistics loop: cellId
    cellRows,           \* the rows written to the cell statistics file
    systemStats,        \* the metrics written to the system statistics file
    files,              \* output file -> times opened, and whether it took data
    dirCreatable,       \* can create_directories(outputDir) succeed
    openable,           \* the output files an std::ofstream can open
    exitStatus,         \* "running", "ok" (return 0) or "aborted"
    requirementsOk,     \* batch script: does check_requirements return 0
    REPLY,              \* batch script: the character read at the prompt
    cellsIdx,           \* batch script: position in CELL_NUMBERS
    scenarioIdx,        \* batch script: position in SCENARIOS
    seedIdx,            \* batch script: position in SEEDS
    sim_number,
    successful_sims,
    failed_sims,
    attempted           \* history: the simulations started, in order

layoutVars  == <<numCells, denseScenario, ISD, baseHeight, gnbPositions>>
placeVars   == <<numUEs, uesPerCell, cellId, jPlaced, ueIndex, uePos,
                 setPositionCalls, placedBy>>
trafficVars == <<embbRatio, numEmbbUEs, embbUEs, urllcUEs, iLoop,
                 perUeRateBps, serverApps, clientApps>>
handoverVars == <<g_handoverAttempts, g_handoverSuccess, g_handoverFailures>>
telemVars   == <<g_channelMetrics, g_sinrHistory, handoverVars, accepted,
                 lastEvent, eventCount, delivered, script>>
assocVars   == <<g_imsiToCell, g_imsiDistance, g_cellUeCount, rounding>>
scoreVars   == <<stats, flowPos, flowRows, cellSummaries,
                 totalSystemThroughput, totalUrllcDelay, totalEmbbDelay,
                 urllcFlows, embbFlows, maxCellThroughput, scoreCellId,
                 cellRows>>
outputVars  == <<systemStats, files, dirCreatable, openable, exitStatus>>
batchVars   == <<requirementsOk, REPLY, cellsIdx, scenarioIdx, seedIdx,
                 sim_number, successful_sims, failed_sims, attempted>>
vars == <<pc, layoutVars, placeVars, trafficVars, telemVars, assocVars,
          scoreVars, outputVars, batchVars>>

\* what the actions of one component leave alone in the others
OutsideLayout  == <<placeVars, trafficVars, telemVars, assocVars, scoreVars,
                    outputVars, batchVars>>
OutsidePlace   == <<trafficVars, telemVars, assocVars, scoreVars, outputVars,
                    batchVars>>
OutsideTraffic == <<layoutVars, uesPerCell, cellId, jPlaced, ueIndex, uePos,
                    setPositionCalls, placedBy, telemVars, assocVars, scoreVars,
                    outputVars, batchVars>>
OutsideTelemetry == <<layoutVars, placeVars, trafficVars, assocVars,
                      scoreVars, outputVars, batchVars>>
OutsideScore   == <<layoutVars, placeVars, trafficVars, telemVars, assocVars,
                    batchVars>>

\* the state of a component that a specification does not exercise
PlaceIdle ==
    /\ numUEs = 0
    /\ uesPerCell = <<>>
    /\ cellId = 0
    /\ jPlaced = 0
    /\ ueIndex = 0
    /\ uePos = <<>>
    /\ setPositionCalls = <<>>
    /\ placedBy = <<>>

TrafficIdle ==
    /\ embbRatio = 0
    /\ numEmbbUEs = 0
    /\ embbUEs = <<>>
    /\ urllcUEs = <<>>
    /\ iLoop = 0
    /\ perUeRateBps = 0
    /\ serverApps = <<>>
    /\ clientApps = <<>>

ScoreIdle ==
    /\ g_imsiToCell = <<>>
    /\ g_imsiDistance = <<>>
    /\ g_cellUeCount = <<>>
    /\ rounding = <<>>
    /\ stats = <<>>
    /\ flowPos = 0
    /\ flowRows = <<>>
    /\ cellSummaries = <<>>
    /\ totalSystemThroughput = [n |-> 0, d |-> 1]
    /\ totalUrllcDelay = [n |-> 0, d |-> 1]
    /\ totalEmbbDelay = [n |-> 0, d |-> 1]
    /\ urllcFlows = 0
    /\ embbFlows = 0
    /\ maxCellThroughput = [n |-> 0, d |-> 1]
    /\ scoreCellId = 0
    /\ cellRows = <<>>

\* the four output files of a run
Files == {"flow", "cell", "system", "config"}
NoFilesYet == [f \in Files |-> [opens |-> 0, written |-> FALSE]]

OutputIdle ==
    /\ systemStats = <<>>
    /\ files = NoFilesYet
    /\ dirCreatable = TRUE
    /\ openable = Files
    /\ exitStatus = "running"

\* the batch script is not part of the run
BatchIdle ==
    /\ requirementsOk = TRUE
    /\ REPLY = ""
    /\ cellsIdx = 0
    /\ scenarioIdx = 0
    /\ seedIdx = 0
    /\ sim_number = 0
    /\ successful_sims = 0
    /\ failed_sims = 0
    /\ attempted = <<>>

\* the IMSIs of the attached UEs: UE index i has IMSI i + 1
Imsis == {1, 2}

\* struct ChannelMetrics, default-initialised
NewChannelMetrics ==
    [sumSinrDb |-> 0, sumRsrpDbm |-> 0, sumRsrqDb |-> 0, samples |-> 0,
     maxSinr |-> -1000, minSinr |-> 1000]

NoEvent == [kind |-> "none", imsi |-> 0, value |-> 0]

\* the globals of lines 52-63 as the program starts
TelemetryStart ==
    /\ g_channelMetrics = [u \in Imsis |-> NewChannelMetrics]
    /\ g_sinrHistory = [u \in Imsis |-> <<>>]
    /\ g_handoverAttempts = 0
    /\ g_handoverSuccess = 0
    /\ g_handoverFailures = 0
    /\ accepted = [u \in Imsis |-> <<>>]
    /\ lastEvent = NoEvent
    /\ eventCount = 0
    /\ delivered = [u \in Imsis |-> <<>>]

TelemetryIdle ==
    /\ TelemetryStart
    /\ script = <<>>

---------------------------------------------------------------------------
(* Small arithmetic helpers *)

Min(a, b) == IF a < b THEN a ELSE b
Max(a, b) == IF a < b THEN b ELSE a

RECURSIVE Gcd(_, _)
Gcd(a, b) == IF b = 0 THEN a ELSE Gcd(b, a % b)

(* Reals.  A value the program holds in a double is modelled by the exact   *)
(* rational [n, d] (n / d in lowest terms, d > 0) the double approximates.  *)
Rat(n, d) ==
    LET g == Gcd(IF n < 0 THEN -n ELSE n, IF d < 0 THEN -d ELSE d)
        sg == IF d < 0 THEN -1 ELSE 1
    IN  IF n = 0 THEN [n |-> 0, d |-> 1]
        ELSE [n |-> sg * (n \div g), d |-> sg * (d \div g)]
FromInt(i) == [n |-> i, d |-> 1]
RAdd(a, b) == Rat(a.n * b.d + b.n * a.d, a.d * b.d)
RSub(a, b) == Rat(a.n * b.d - b.n * a.d, a.d * b.d)
\* factors are cancelled crosswise first, to keep the products small
RMul(a, b) ==
    LET p == Rat(a.n, b.d)
        q == Rat(b.n, a.d)
    IN  Rat(p.n * q.n, p.d * q.d)
RDiv(a, b) == RMul(a, Rat(b.d, b.n))
Zero == FromInt(0)
RLess(a, b) == a.n * b.d < b.n * a.d
RLeq(a, b) == a.n * b.d <= b.n * a.d
\* std::min(a, b) is (b < a) ? b : a, std::max(a, b) is (a < b) ? b : a
RMin(a, b) == IF RLess(b, a) THEN b ELSE a
RMax(a, b) == IF RLess(a, b) THEN b ELSE a

\* a * m / 1000, rounded toward zero (m in thousandths)
MulMilli(a, m) ==
    LET p == a * m
    IN  IF p >= 0 THEN p \div 1000 ELSE -((-p) \div 1000)

\* Squares of millimetre lengths do not fit a machine word here: a wide
\* number [hi, lo] stands for hi * 10^6 + lo with 0 <= lo < 10^6.
Wide(hi, lo) == [hi |-> hi + lo \div 1000000, lo |-> lo % 1000000]

WideAdd(x, y) == Wide(x.hi + y.hi, x.lo + y.lo)

WideLess(x, y) == x.hi < y.hi \/ (x.hi = y.hi /\ x.lo < y.lo)

\* a * a, exactly
Square(a) ==
    LET m   == IF a < 0 THEN -a ELSE a
        ah  == m \div 1000
        al  == m % 1000
        mid == 2 * ah * al
    IN  Wide(ah * ah + mid \div 1000, (mid % 1000) * 1000 + al * al)

---------------------------------------------------------------------------
(* enum ScenarioType *)

DENSE_URBAN == 0
SPARSE_SUBURBAN == 1

ScenarioOf(dense) == IF dense THEN DENSE_URBAN ELSE SPARSE_SUBURBAN

---------------------------------------------------------------------------
(* Topology generator: CreateOptimizedCellLayout.  Lengths are whole        *)
(* millimetres: a coordinate is the code's value to the nearest millimetre  *)
(* where a sine or cosine enters, and cut to the millimetre below where a   *)
(* decimal literal does.                                                     *)

\* a * f / 10^9 rounded to the nearest whole number (f in units of 10^-9,
\* |f| <= 10^9, |a| <= 10^6): the product is summed digit group by digit group
MulNano(a, f) ==
    LET m  == IF a < 0 THEN -a ELSE a
        g  == IF f < 0 THEN -f ELSE f
        sg == IF (a < 0) = (f < 0) THEN 1 ELSE -1
        thousandths == m * (g \div 1000000)
        millionths  == m * ((g \div 1000) % 1000)
        billionths  == m * (g % 1000)
        fraction    == (thousandths % 1000) * 1000 + millionths
                          + billionths \div 1000
    IN  sg * ((thousandths \div 1000) + (fraction + 500000) \div 1000000)

\* cos / sin of i * pi / 3, in units of 10^-9
Cos60(i) == CASE i = 0 -> 1000000000 [] i = 1 -> 500000000
              [] i = 2 -> -500000000 [] i = 3 -> -1000000000
              [] i = 4 -> -500000000 [] OTHER -> 500000000
Sin60(i) == CASE i = 0 -> 0 [] i = 1 -> 866025404 [] i = 2 -> 866025404
              [] i = 3 -> 0 [] i = 4 -> -866025404 [] OTHER -> -866025404
\* cos / sin of i * pi / 4, in units of 10^-9
Cos45(i) == CASE i = 0 -> 1000000000 [] i = 1 -> 707106781 [] i = 2 -> 0
              [] i = 3 -> -707106781 [] i = 4 -> -1000000000
              [] i = 5 -> -707106781 [] i = 6 -> 0 [] OTHER -> 707106781
Sin45(i) == CASE i = 0 -> 0 [] i = 1 -> 707106781 [] i = 2 -> 1000000000
              [] i = 3 -> 707106781 [] i = 4 -> 0 [] i = 5 -> -707106781
              [] i = 6 -> -1000000000 [] OTHER -> -707106781

Vector(x, y, z) == <<x, y, z>>

\* double effectiveISD = (scenario == DENSE_URBAN) ? ISD * 0.7 : ISD * 1.3;
EffectiveISD(isd, scenario) ==
    IF scenario = DENSE_URBAN THEN isd * 700 ELSE isd * 1300

\* case 1
Template1(h) == <<Vector(0, 0, h)>>

\* case 3: equilateral triangle, r = effectiveISD * 0.577
Template3(eff, h) ==
    LET r == MulMilli(eff, 577)
    IN  << Vector(0, r, h),
           Vector(MulMilli(-r, 866), MulMilli(-r, 500), h),
           Vector(MulMilli(r, 866), MulMilli(-r, 500), h) >>

\* case 5: centre + cross, offset = effectiveISD * 0.7
Template5(eff, h) ==
    LET offset == MulMilli(eff, 700)
    IN  << Vector(0, 0, h),
           Vector(offset, 0, h), Vector(-offset, 0, h),
           Vector(0, offset, h), Vector(0, -offset, h) >>

\* case 7: centre + hexagon, r = effectiveISD * 0.6, angle = i * pi / 3
Template7(eff, h) ==
    LET r == MulMilli(eff, 600)
    IN  <<Vector(0, 0, h)>> \o
        [i \in 1..6 |-> Vector(MulNano(r, Cos60(i - 1)),
                               MulNano(r, Sin60(i - 1)), h)]

\* case 9 and default: centre + 8 directions, r = effectiveISD * 0.65
Template9(eff, h) ==
    LET r == MulMilli(eff, 650)
    IN  <<Vector(0, 0, h)>> \o
        [i \in 1..8 |-> Vector(MulNano(r, Cos45(i - 1)),
                               MulNano(r, Sin45(i - 1)), h)]

\* the switch with the centre of the cross template left out
CreateOptimizedCellLayout_NoCentre(n, isd, height, scenario) ==
    LET eff == EffectiveISD(isd, scenario)
        h   == height * 1000
    IN  CASE n = 1 -> Template1(h)
          [] n = 3 -> Template3(eff, h)
          [] n = 5 -> Tail(Template5(eff, h))
          [] n = 7 -> Template7(eff, h)
          [] OTHER -> Template9(eff, h)

\* the switch with "default:" on its own, adding nothing
CreateOptimizedCellLayout_NoDefault(n, isd, height, scenario) ==
    LET eff == EffectiveISD(isd, scenario)
        h   == height * 1000
    IN  CASE n = 1 -> Template1(h)
          [] n = 3 -> Template3(eff, h)
          [] n = 5 -> Template5(eff, h)
          [] n = 7 -> Template7(eff, h)
          [] n = 9 -> Template9(eff, h)
          [] OTHER -> <<>>

CreateOptimizedCellLayout(n, isd, height, scenario) ==
    LET eff == EffectiveISD(isd, scenario)
        h   == height * 1000
    IN  CASE n = 1 -> Template1(h)
          [] n = 3 -> Template3(eff, h)
          [] n = 5 -> Template5(eff, h)
          [] n = 7 -> Template7(eff, h)
          [] OTHER -> Template9(eff, h)

\* bounds of the layout inputs
MaxCells == 10
IsdSet == {100, 200, 500, 1000}
HeightSet == {10, 25}
SupportedCounts == {1, 3, 5, 7, 9}

InitLayout ==
    /\ pc = "layout"
    /\ numCells \in 0..MaxCells
    /\ denseScenario \in BOOLEAN
    /\ ISD \in IsdSet
    /\ baseHeight \in HeightSet
    /\ gnbPositions = <<>>
    /\ PlaceIdle
    /\ TrafficIdle
    /\ TelemetryIdle
    /\ ScoreIdle
    /\ OutputIdle
    /\ BatchIdle

\* main: gnbPositions = CreateOptimizedCellLayout(numCells, ISD, gnbHeight, scenario)
CreateLayout ==
    /\ pc = "layout"
    /\ gnbPositions' = CreateOptimizedCellLayout(numCells, ISD, baseHeight,
                                                 ScenarioOf(denseScenario))
    /\ pc' = "layout_done"
    /\ UNCHANGED <<numCells, denseScenario, ISD, baseHeight, OutsideLayout>>

NextLayout == CreateLayout

SpecLayout == InitLayout /\ [][NextLayout]_vars

\* C1: for every supported cell count the layout has exactly that many
\* points, and the templates with a centre (1, 5, 7, 9) put (0, 0, height)
\* first.
C1_LayoutCountAndCentre ==
    (pc = "layout_done" /\ numCells \in SupportedCounts) =>
        /\ Len(gnbPositions) = numCells
        /\ numCells # 3 => gnbPositions[1] = <<0, 0, baseHeight * 1000>>

C1_Witness ==
    /\ pc = "layout_done"
    /\ numCells = 5
    /\ denseScenario
    /\ Len(gnbPositions) = 5
    /\ gnbPositions[2] # gnbPositions[1]

\* C2: every unsupported cell count yields, without failing, the very
\* layout of nine points (centre plus eight) that a request for 9 yields.
C2_FallbackToNine ==
    (pc = "layout_done" /\ numCells \notin SupportedCounts) =>
        /\ Len(gnbPositions) = 9
        /\ gnbPositions[1] = <<0, 0, baseHeight * 1000>>
        /\ gnbPositions = CreateOptimizedCellLayout(9, ISD, baseHeight,
                                                    ScenarioOf(denseScenario))

C2_Witness ==
    /\ pc = "layout_done"
    /\ numCells \in {0, 2, 4, 10}
    /\ Len(gnbPositions) = 9

---------------------------------------------------------------------------
(* UE placement sampler: DistributeUsersOptimized *)

\* double ueHeight = 1.5 (metres), in millimetres
UeHeightMm == 1500

\* gnbNodes.Get(j)->GetPosition(): MobilityHelper::Install hands the
\* allocator's positions to the nodes in order, wrapping at the end
GnbPosition(positions, j) == positions[(j % Len(positions)) + 1]

\* the Dense scaling applied per matching index, twice for a single cell
UesPerCellQuota_ScaledPerIndex(nUEs, nCells, scenario) ==
    LET baseUesPerCell == nUEs \div nCells
        remainder      == nUEs % nCells
    IN  [c \in 1..nCells |->
            LET i == c - 1
                q == baseUesPerCell + (IF i < remainder THEN 1 ELSE 0)
                q0 == IF i = 0 THEN (q * 3) \div 2 ELSE q
                q1 == IF i = nCells \div 2 THEN (q0 * 3) \div 2 ELSE q0
            IN  IF scenario = DENSE_URBAN THEN q1 ELSE q]

\* the remainder handed to the last cells instead of the first
UesPerCellQuota_RemainderLast(nUEs, nCells, scenario) ==
    LET baseUesPerCell == nUEs \div nCells
        remainder      == nUEs % nCells
    IN  [c \in 1..nCells |->
            LET i == c - 1
                q == baseUesPerCell
                       + (IF i >= nCells - remainder THEN 1 ELSE 0)
            IN  IF scenario = DENSE_URBAN /\ (i = 0 \/ i = nCells \div 2)
                THEN (q * 3) \div 2
                ELSE q]

\* lines 193-207: the per-cell quota (numCells >= 1).  uesPerCell[i] *= 1.5
\* on a uint32_t truncates, i.e. floor(3 q / 2).
UesPerCellQuota(nUEs, nCells, scenario) ==
    LET baseUesPerCell == nUEs \div nCells
        remainder      == nUEs % nCells
    IN  [c \in 1..nCells |->
            LET i == c - 1
                q == baseUesPerCell + (IF i < remainder THEN 1 ELSE 0)
            IN  IF scenario = DENSE_URBAN /\ (i = 0 \/ i = nCells \div 2)
                THEN (q * 3) \div 2
                ELSE q]

\* lines 214-215, millimetres
MaxRadius(isd, scenario) ==
    IF scenario = DENSE_URBAN THEN isd * 400 ELSE isd * 800
MinRadius(scenario) ==
    IF scenario = DENSE_URBAN THEN 10000 ELSE 50000

\* lines 220-227: e is the exponential draw, u the uniform draw as a
\* fraction of [minRadius, maxRadius), both in thousandths
SampleRadius(isd, scenario, e, u) ==
    LET maxRadius == MaxRadius(isd, scenario)
        minRadius == MinRadius(scenario)
    IN  IF scenario = DENSE_URBAN
        THEN Min(minRadius + MulMilli(MulMilli(maxRadius - minRadius, e), 300),
                 maxRadius)
        ELSE minRadius + MulMilli(maxRadius - minRadius, u)

\* cos / sin of a quarter-turn angle q * pi / 2, in thousandths
Cos90(q) == CASE q = 0 -> 1000 [] q = 1 -> 0 [] q = 2 -> -1000 [] OTHER -> 0
Sin90(q) == CASE q = 0 -> 0 [] q = 1 -> 1000 [] q = 2 -> 0 [] OTHER -> -1000

\* lines 231-235
PositionInCell(cellPos, radius, q) ==
    Vector(cellPos[1] + MulMilli(radius, Cos90(q)),
           cellPos[2] + MulMilli(radius, Sin90(q)),
           UeHeightMm)

\* the draws taken over a square of half-width 3 x ISD
ScatterPosition_DoubleWidth(isd, fx, fy) ==
    LET areaSize == isd * 3000
    IN  Vector(-areaSize + MulMilli(2 * areaSize, fx),
               -areaSize + MulMilli(2 * areaSize, fy),
               UeHeightMm)

\* lines 242-247: fx, fy are the uniform draws as fractions of
\* [-areaSize, areaSize), in thousandths
ScatterPosition(isd, fx, fy) ==
    LET areaSize == isd * 1500
    IN  Vector(-areaSize + MulMilli(2 * areaSize, fx),
               -areaSize + MulMilli(2 * areaSize, fy),
               UeHeightMm)

\* history of the placement: which loop gave a UE its position
NotPlaced == [by |-> "none", cell |-> 0]
ByCell(c) == [by |-> "cell", cell |-> c]
ByScatter == [by |-> "scatter", cell |-> 0]

\* bounds of the placement inputs, and the draws the random sources give
MaxPlaceUEs == 4
MaxPlaceCells == 4
PlaceIsd == 200
PlaceGnbHeight == 25
CellDraws == { [e |-> 0, u |-> 0, q |-> 0], [e |-> 5000, u |-> 999, q |-> 3] }
ScatterDraws == { [fx |-> 0, fy |-> 0], [fx |-> 999, fy |-> 500] }

InitPlace ==
    /\ pc = "place"
    /\ numCells \in 0..MaxPlaceCells
    /\ numUEs \in 0..MaxPlaceUEs
    /\ denseScenario \in BOOLEAN
    /\ ISD = PlaceIsd
    /\ baseHeight = PlaceGnbHeight
    /\ gnbPositions = CreateOptimizedCellLayout(numCells, ISD, baseHeight,
                                                ScenarioOf(denseScenario))
    /\ uesPerCell = <<>>
    /\ cellId = 0
    /\ jPlaced = 0
    /\ ueIndex = 0
    /\ uePos = [i \in 0..(numUEs - 1) |-> Vector(0, 0, 0)]
    /\ setPositionCalls = [i \in 0..(numUEs - 1) |-> 0]
    /\ placedBy = [i \in 0..(numUEs - 1) |-> NotPlaced]
    /\ TrafficIdle
    /\ TelemetryIdle
    /\ ScoreIdle
    /\ OutputIdle
    /\ BatchIdle

\* lines 189-209 with at least one cell
PlaceBegin ==
    /\ pc = "place"
    /\ numCells > 0
    /\ uesPerCell' = UesPerCellQuota(numUEs, numCells, ScenarioOf(denseScenario))
    /\ ueIndex' = 0
    /\ cellId' = 0
    /\ pc' = "place_outer"
    /\ UNCHANGED <<OutsidePlace, layoutVars, numUEs, jPlaced, uePos,
                   setPositionCalls, placedBy>>

\* lines 193-195 with no cell: numUEs / numCells and numUEs % numCells divide
\* an integer by zero.  The build either traps (SIGFPE) or yields some
\* quotient; the quota vector is empty either way.
PlaceBeginNoCells ==
    /\ pc = "place"
    /\ numCells = 0
    /\ uesPerCell' = <<>>
    /\ ueIndex' = 0
    /\ cellId' = 0
    /\ pc' \in {"place_aborted", "place_outer"}
    /\ UNCHANGED <<OutsidePlace, layoutVars, numUEs, jPlaced, uePos,
                   setPositionCalls, placedBy>>

\* line 210: the outer loop condition holds, line 217: j = 0
PlaceEnterCell ==
    /\ pc = "place_outer"
    /\ cellId < numCells /\ ueIndex < numUEs
    /\ jPlaced' = 0
    /\ pc' = "place_inner"
    /\ UNCHANGED <<OutsidePlace, layoutVars, numUEs, uesPerCell, cellId, ueIndex, uePos,
                   setPositionCalls, placedBy>>

\* lines 217-238: one iteration of the inner loop
PlaceInCell ==
    /\ pc = "place_inner"
    /\ jPlaced < uesPerCell[cellId + 1] /\ ueIndex < numUEs
    /\ \E d \in CellDraws :
         LET radius == SampleRadius(ISD, ScenarioOf(denseScenario), d.e, d.u)
             cellPos == GnbPosition(gnbPositions, cellId)
         IN  uePos' = [uePos EXCEPT ![ueIndex] =
                          PositionInCell(cellPos, radius, d.q)]
    /\ setPositionCalls' = [setPositionCalls EXCEPT ![ueIndex] = @ + 1]
    /\ placedBy' = [placedBy EXCEPT ![ueIndex] = ByCell(cellId)]
    /\ ueIndex' = ueIndex + 1
    /\ jPlaced' = jPlaced + 1
    /\ UNCHANGED <<OutsidePlace, pc, layoutVars, numUEs, uesPerCell, cellId>>

\* line 217: the inner loop condition fails, line 210: cellId++
PlaceLeaveCell ==
    /\ pc = "place_inner"
    /\ ~(jPlaced < uesPerCell[cellId + 1] /\ ueIndex < numUEs)
    /\ cellId' = cellId + 1
    /\ pc' = "place_outer"
    /\ UNCHANGED <<OutsidePlace, layoutVars, numUEs, uesPerCell, jPlaced, ueIndex, uePos,
                   setPositionCalls, placedBy>>

\* line 210: the outer loop condition fails
PlaceCellsDone ==
    /\ pc = "place_outer"
    /\ ~(cellId < numCells /\ ueIndex < numUEs)
    /\ pc' = "place_scatter"
    /\ UNCHANGED <<OutsidePlace, layoutVars, placeVars>>

\* lines 243-248: one iteration of the scatter loop
PlaceScatter ==
    /\ pc = "place_scatter"
    /\ ueIndex < numUEs
    /\ \E d \in ScatterDraws :
         uePos' = [uePos EXCEPT ![ueIndex] = ScatterPosition(ISD, d.fx, d.fy)]
    /\ setPositionCalls' = [setPositionCalls EXCEPT ![ueIndex] = @ + 1]
    /\ placedBy' = [placedBy EXCEPT ![ueIndex] = ByScatter]
    /\ ueIndex' = ueIndex + 1
    /\ UNCHANGED <<OutsidePlace, pc, layoutVars, numUEs, uesPerCell, cellId, jPlaced>>

\* line 249
PlaceReturn ==
    /\ pc = "place_scatter"
    /\ ~(ueIndex < numUEs)
    /\ pc' = "place_done"
    /\ UNCHANGED <<OutsidePlace, layoutVars, placeVars>>

NextPlace ==
    \/ PlaceBegin
    \/ PlaceBeginNoCells
    \/ PlaceEnterCell
    \/ PlaceInCell
    \/ PlaceLeaveCell
    \/ PlaceCellsDone
    \/ PlaceScatter
    \/ PlaceReturn

SpecPlace == InitPlace /\ [][NextPlace]_vars

\* C3: for all UE counts, cell counts and both scenarios the placement
\* terminates (it never aborts), no UE index is written twice, and on return
\* every UE index 0..numUEs-1 has been written exactly once.
C3_EveryUePlacedOnce ==
    /\ pc # "place_aborted"
    /\ \A i \in DOMAIN setPositionCalls : setPositionCalls[i] <= 1
    /\ pc = "place_done" =>
           \A i \in DOMAIN setPositionCalls : setPositionCalls[i] = 1

---------------------------------------------------------------------------
(* Traffic classification and rate allocation (main, lines 388-466) *)

Pow2(n) == IF n <= 0 THEN 1 ELSE 2 ^ n

\* the least q >= 0 with m <= 2^q
RECURSIVE CeilLog2From(_, _)
CeilLog2From(m, q) == IF m <= Pow2(q) THEN q ELSE CeilLog2From(m, q + 1)
CeilLog2(m) == CeilLog2From(m, 0)

\* The IEEE-754 double nearest to k/10 is k/10 + err / (10 * 2^(53 + shift)):
\* err and shift of the double literals 0.0, 0.1, ..., 1.0.
DoubleOfTenths(k) ==
    CASE k = 1 -> [err |-> 4,  shift |-> 3]
      [] k = 2 -> [err |-> 4,  shift |-> 2]
      [] k = 3 -> [err |-> -2, shift |-> 1]
      [] k = 4 -> [err |-> 4,  shift |-> 1]
      [] k = 6 -> [err |-> -2, shift |-> 0]
      [] k = 7 -> [err |-> -4, shift |-> 0]
      [] k = 8 -> [err |-> 4,  shift |-> 0]
      [] k = 9 -> [err |-> 2,  shift |-> 0]
      [] OTHER -> [err |-> 0,  shift |-> 0]

\* line 389: static_cast<uint32_t>(embbRatio * numUEs), embbRatio = k/10.
\* The double product is the exact product k n / 10 + n err / (10 * 2^(53+shift))
\* rounded to nearest (ties to even); the cast truncates.  The result is
\* floor(k n / 10) unless k n / 10 is a whole number m >= 1, the double of
\* k/10 lies below k/10, and the product rounds to the double just below m,
\* which happens when the deficit exceeds half the spacing of doubles below m.
TruncDoubleProduct(k, n) ==
    LET prod == k * n
        fl   == prod \div 10
        d    == DoubleOfTenths(k)
    IN  IF /\ prod % 10 = 0
           /\ fl >= 1
           /\ d.err < 0
           /\ 2 * n * (-d.err) > 10 * Pow2(CeilLog2(fl) + d.shift)
        THEN fl - 1
        ELSE fl

embbPort == 7000
urllcPort == 7001

\* line 402: embbBudgetBps
EmbbBudgetBps(dense) == IF dense THEN 300000000 ELSE 200000000

\* the rate with the 5 Mb/s floor left out
PerUeRate_NoFloor(budget, nEmbb) ==
    IF nEmbb > 0
    THEN Min(budget \div nEmbb, 20000000)
    ELSE 10000000

\* lines 404-413.  fairShare is a double and the cast to uint64_t truncates;
\* the bounds are whole numbers, so clamping and truncating commute.
PerUeRate(budget, nEmbb) ==
    IF nEmbb > 0
    THEN Max(5000000, Min(budget \div nEmbb, 20000000))
    ELSE 10000000

\* the UE counts and eMBB ratios (tenths) the traffic set-up is run on
TrafficUeCounts == {0, 1, 3, 10, 30, 50, 90}
RatioTenths == 0..10

InitTraffic ==
    /\ pc = "traffic"
    /\ numCells = 1
    /\ denseScenario \in BOOLEAN
    /\ ISD = PlaceIsd
    /\ baseHeight = PlaceGnbHeight
    /\ gnbPositions = <<>>
    /\ numUEs \in TrafficUeCounts
    /\ uesPerCell = <<>>
    /\ cellId = 0
    /\ jPlaced = 0
    /\ ueIndex = 0
    /\ uePos = <<>>
    /\ setPositionCalls = <<>>
    /\ placedBy = <<>>
    /\ embbRatio \in RatioTenths
    /\ numEmbbUEs = 0
    /\ embbUEs = <<>>
    /\ urllcUEs = <<>>
    /\ iLoop = 0
    /\ perUeRateBps = 0
    /\ serverApps = <<>>
    /\ clientApps = <<>>
    /\ TelemetryIdle
    /\ ScoreIdle
    /\ OutputIdle
    /\ BatchIdle

\* line 389
ComputeNumEmbb ==
    /\ pc = "traffic"
    /\ numEmbbUEs' = TruncDoubleProduct(embbRatio, numUEs)
    /\ iLoop' = 0
    /\ pc' = "classify"
    /\ UNCHANGED <<OutsideTraffic, numUEs, embbRatio, embbUEs, urllcUEs,
                   perUeRateBps, serverApps, clientApps>>

\* lines 393-401: one iteration of the classification loop
ClassifyUe ==
    /\ pc = "classify"
    /\ iLoop < numUEs
    /\ IF iLoop < numEmbbUEs
       THEN /\ embbUEs' = Append(embbUEs, iLoop)
            /\ UNCHANGED urllcUEs
       ELSE /\ urllcUEs' = Append(urllcUEs, iLoop)
            /\ UNCHANGED embbUEs
    /\ iLoop' = iLoop + 1
    /\ UNCHANGED <<pc, OutsideTraffic, numUEs, embbRatio, numEmbbUEs,
                   perUeRateBps, serverApps, clientApps>>

\* lines 402-413: the loop is over, the per-UE eMBB rate is computed
ComputeRate ==
    /\ pc = "classify"
    /\ ~(iLoop < numUEs)
    /\ perUeRateBps' = PerUeRate(EmbbBudgetBps(denseScenario), Len(embbUEs))
    /\ iLoop' = 0
    /\ pc' = "embb_apps"
    /\ UNCHANGED <<OutsideTraffic, numUEs, embbRatio, numEmbbUEs, embbUEs,
                   urllcUEs, serverApps, clientApps>>

\* lines 420-440: one iteration of the eMBB application loop
InstallEmbbApp ==
    /\ pc = "embb_apps"
    /\ iLoop < Len(embbUEs)
    /\ serverApps' = Append(serverApps,
                            [node |-> embbUEs[iLoop + 1], port |-> embbPort])
    /\ clientApps' = Append(clientApps,
                            [destUe |-> iLoop, port |-> embbPort,
                             rate |-> perUeRateBps])
    /\ iLoop' = iLoop + 1
    /\ UNCHANGED <<pc, OutsideTraffic, numUEs, embbRatio, numEmbbUEs, embbUEs,
                   urllcUEs, perUeRateBps>>

\* line 420: the eMBB loop is over
EmbbAppsDone ==
    /\ pc = "embb_apps"
    /\ ~(iLoop < Len(embbUEs))
    /\ iLoop' = 0
    /\ pc' = "urllc_apps"
    /\ UNCHANGED <<OutsideTraffic, numUEs, embbRatio, numEmbbUEs, embbUEs,
                   urllcUEs, perUeRateBps, serverApps, clientApps>>

\* lines 444-466: one iteration of the URLLC application loop
InstallUrllcApp ==
    /\ pc = "urllc_apps"
    /\ iLoop < Len(urllcUEs)
    /\ serverApps' = Append(serverApps,
                            [node |-> urllcUEs[iLoop + 1], port |-> urllcPort])
    /\ LET ueIdx == iLoop + numEmbbUEs
       IN  clientApps' = Append(clientApps,
                                [destUe |-> ueIdx, port |-> urllcPort,
                                 rate |-> 0])
    /\ iLoop' = iLoop + 1
    /\ UNCHANGED <<pc, OutsideTraffic, numUEs, embbRatio, numEmbbUEs, embbUEs,
                   urllcUEs, perUeRateBps>>

\* line 444: the URLLC loop is over
UrllcAppsDone ==
    /\ pc = "urllc_apps"
    /\ ~(iLoop < Len(urllcUEs))
    /\ pc' = "apps_done"
    /\ UNCHANGED <<OutsideTraffic, numUEs, trafficVars>>

NextTraffic ==
    \/ ComputeNumEmbb
    \/ ClassifyUe
    \/ ComputeRate
    \/ InstallEmbbApp
    \/ EmbbAppsDone
    \/ InstallUrllcApp
    \/ UrllcAppsDone

SpecTraffic == InitTraffic /\ [][NextTraffic]_vars

InSeq(seq, x) == \E p \in 1..Len(seq) : seq[p] = x

\* C4: the per-UE eMBB rate (in whole bit/s, as perUeRateBps holds it) is
\* exactly 10e6 with no eMBB UE, otherwise budget / embbUeCount clamped into
\* [5e6, 20e6]; a budget of 2e8 over 50 eMBB UEs has fair share 4e6 and is
\* raised to 5e6.  Every eMBB source is given that rate.
C4_PerUeRateClamped ==
    pc \in {"embb_apps", "urllc_apps", "apps_done"} =>
        LET n      == Len(embbUEs)
            budget == IF denseScenario THEN 300000000 ELSE 200000000
        IN  /\ n = 0 => perUeRateBps = 10000000
            /\ n > 0 =>
                 /\ perUeRateBps >= 5000000
                 /\ perUeRateBps <= 20000000
                 /\ perUeRateBps =
                      IF budget \div n < 5000000 THEN 5000000
                      ELSE IF budget \div n > 20000000 THEN 20000000
                      ELSE budget \div n
            /\ (n = 50 /\ ~denseScenario) =>
                 /\ budget \div n = 4000000
                 /\ perUeRateBps = 5000000
            /\ \A a \in 1..Len(clientApps) :
                 clientApps[a].port = embbPort =>
                     clientApps[a].rate = perUeRateBps

C4_Witness ==
    /\ pc = "apps_done"
    /\ Len(embbUEs) = 50
    /\ ~denseScenario
    /\ perUeRateBps = 5000000
    /\ Len(clientApps) = numUEs

\* C5: classification is a strict prefix split at floor(embbRatio * numUEs):
\* UE i is eMBB iff i is below it and URLLC otherwise; 10 UEs at ratio 0.6
\* give eMBB 0-5 and URLLC 6-9; the k-th URLLC source targets the address of
\* UE k + numEmbbUEs.
C5_PrefixSplitAtFloor ==
    pc \in {"embb_apps", "urllc_apps", "apps_done"} =>
        LET split == (embbRatio * numUEs) \div 10
        IN  /\ \A i \in 0..(numUEs - 1) :
                 /\ InSeq(embbUEs, i) <=> i < split
                 /\ InSeq(urllcUEs, i) <=> ~(i < split)
            /\ (numUEs = 10 /\ embbRatio = 6) =>
                 /\ embbUEs = <<0, 1, 2, 3, 4, 5>>
                 /\ urllcUEs = <<6, 7, 8, 9>>
            /\ pc = "apps_done" =>
                 \A k \in 0..(Len(urllcUEs) - 1) :
                     LET app == clientApps[Len(embbUEs) + k + 1]
                     IN  /\ app.port = urllcPort
                         /\ app.destUe = k + numEmbbUEs
                         /\ app.destUe = urllcUEs[k + 1]

---------------------------------------------------------------------------
(* Telemetry aggregator: the trace callbacks of lines 66-114 *)

\* capacity of the SINR history, line 80
HistoryCap == 1000

\* 10.0 * std::log10(params.m_sinr) for the linear SINR values used here
\* (thousandths): 0.01 -> -20 dB, 0.1 -> -10 dB, 1 -> 0 dB, 10 -> 10 dB, ...
SinrDbOf(sinr) ==
    CASE sinr = 10 -> -20
      [] sinr = 100 -> -10
      [] sinr = 1000 -> 0
      [] sinr = 10000 -> 10
      [] sinr = 100000 -> 20
      [] sinr = 1000000 -> 30

\* a history that refuses the new sample once full, keeping the oldest
PushHistory_KeepsOldest(history, sinrDb) ==
    LET pushed == Append(history, sinrDb)
    IN  IF Len(pushed) > HistoryCap THEN history ELSE pushed

\* lines 79-82: push_back, then erase(begin()) once the size exceeds 1000
PushHistory(history, sinrDb) ==
    LET pushed == Append(history, sinrDb)
    IN  IF Len(pushed) > HistoryCap THEN Tail(pushed) ELSE pushed

\* the running extremes replaced by the latest sample
UpdateMetrics_LatestAsExtremes(metrics, sinrDb) ==
    [metrics EXCEPT !.sumSinrDb = @ + sinrDb,
                    !.samples = @ + 1,
                    !.maxSinr = sinrDb,
                    !.minSinr = sinrDb]

\* lines 72-76
UpdateMetrics(metrics, sinrDb) ==
    [metrics EXCEPT !.sumSinrDb = @ + sinrDb,
                    !.samples = @ + 1,
                    !.maxSinr = Max(@, sinrDb),
                    !.minSinr = Min(@, sinrDb)]

\* the delivery of one callback by the simulator's event loop
Delivered(kind, imsi, value) ==
    /\ lastEvent' = [kind |-> kind, imsi |-> imsi, value |-> value]
    /\ eventCount' = eventCount + 1
    /\ delivered' = [delivered EXCEPT
                       ![imsi] = Append(@, [kind |-> kind, value |-> value])]

\* the callback with the sample counted above the guard on its sign
EnhancedSinrCallback_CountsAll(imsi, sinr) ==
    /\ IF sinr > 0
       THEN LET sinrDb == SinrDbOf(sinr)
            IN  /\ g_channelMetrics' =
                     [g_channelMetrics EXCEPT ![imsi] = UpdateMetrics(@, sinrDb)]
                /\ g_sinrHistory' =
                     [g_sinrHistory EXCEPT ![imsi] = PushHistory(@, sinrDb)]
                /\ accepted' = [accepted EXCEPT ![imsi] = Append(@, sinrDb)]
       ELSE /\ g_channelMetrics' =
                 [g_channelMetrics EXCEPT ![imsi].samples = @ + 1]
            /\ UNCHANGED <<g_sinrHistory, accepted>>
    /\ UNCHANGED handoverVars

\* lines 66-84
EnhancedSinrCallback(imsi, sinr) ==
    /\ IF sinr > 0
       THEN LET sinrDb == SinrDbOf(sinr)
            IN  /\ g_channelMetrics' =
                     [g_channelMetrics EXCEPT ![imsi] = UpdateMetrics(@, sinrDb)]
                /\ g_sinrHistory' =
                     [g_sinrHistory EXCEPT ![imsi] = PushHistory(@, sinrDb)]
                /\ accepted' = [accepted EXCEPT ![imsi] = Append(@, sinrDb)]
       ELSE UNCHANGED <<g_channelMetrics, g_sinrHistory, accepted>>
    /\ UNCHANGED handoverVars

\* the RSRP sum filed under the reporting cell's id instead of the IMSI
RsrpCallback_KeyedByCell(imsi, cell, rsrp) ==
    /\ g_channelMetrics' =
         [g_channelMetrics EXCEPT
            ![IF cell \in Imsis THEN cell ELSE imsi].sumRsrpDbm = @ + rsrp]
    /\ UNCHANGED <<g_sinrHistory, accepted, handoverVars>>

\* lines 86-90
RsrpCallback(imsi, cell, rsrp) ==
    /\ g_channelMetrics' =
         [g_channelMetrics EXCEPT ![imsi].sumRsrpDbm = @ + rsrp]
    /\ UNCHANGED <<g_sinrHistory, accepted, handoverVars>>

\* lines 92-96
RsrqCallback(imsi, cell, rsrq) ==
    /\ g_channelMetrics' =
         [g_channelMetrics EXCEPT ![imsi].sumRsrqDb = @ + rsrq]
    /\ UNCHANGED <<g_sinrHistory, accepted, handoverVars>>

\* lines 98-102
HandoverStartCallback(imsi, sourceCellId, targetCellId) ==
    /\ g_handoverAttempts' = g_handoverAttempts + 1
    /\ UNCHANGED <<g_channelMetrics, g_sinrHistory, accepted,
                   g_handoverSuccess, g_handoverFailures>>

\* lines 104-108
HandoverSuccessCallback(imsi, sourceCellId, targetCellId) ==
    /\ g_handoverSuccess' = g_handoverSuccess + 1
    /\ UNCHANGED <<g_channelMetrics, g_sinrHistory, accepted,
                   g_handoverAttempts, g_handoverFailures>>

\* the failure callback as a copy of the start callback, counter not renamed
HandoverFailureCallback_CountsAttempt(imsi, sourceCellId, targetCellId) ==
    /\ g_handoverAttempts' = g_handoverAttempts + 1
    /\ UNCHANGED <<g_channelMetrics, g_sinrHistory, accepted,
                   g_handoverSuccess, g_handoverFailures>>

\* lines 110-114
HandoverFailureCallback(imsi, sourceCellId, targetCellId) ==
    /\ g_handoverFailures' = g_handoverFailures + 1
    /\ UNCHANGED <<g_channelMetrics, g_sinrHistory, accepted,
                   g_handoverAttempts, g_handoverSuccess>>

\* bounds of the telemetry run, and the values the engine reports
MaxEvents == 3
SinrValues == {-1000, 0, 100, 10000, 1000000}
RsrpValues == {-95}
RsrqValues == {-11}
CellIds == {0, 1}

InitTelemetry ==
    /\ pc = "run"
    /\ numCells = 2
    /\ denseScenario = FALSE
    /\ ISD = PlaceIsd
    /\ baseHeight = PlaceGnbHeight
    /\ gnbPositions = <<>>
    /\ PlaceIdle
    /\ TrafficIdle
    /\ TelemetryStart
    /\ script = <<>>
    /\ ScoreIdle
    /\ OutputIdle
    /\ BatchIdle

OnSinr ==
    /\ pc = "run" /\ eventCount < MaxEvents
    /\ \E imsi \in Imsis, sinr \in SinrValues :
         /\ EnhancedSinrCallback(imsi, sinr)
         /\ Delivered("sinr", imsi, sinr)
    /\ UNCHANGED <<pc, script, OutsideTelemetry>>

\* RsrpCallback called with some report (no trace source is connected to it
\* in main, so a run of main never calls it)
OnRsrp ==
    /\ pc = "run" /\ eventCount < MaxEvents
    /\ \E imsi \in Imsis, cell \in CellIds, rsrp \in RsrpValues :
         /\ RsrpCallback(imsi, cell, rsrp)
         /\ Delivered("rsrp", imsi, rsrp)
    /\ UNCHANGED <<pc, script, OutsideTelemetry>>

\* RsrqCallback called with some report (not connected in main either)
OnRsrq ==
    /\ pc = "run" /\ eventCount < MaxEvents
    /\ \E imsi \in Imsis, cell \in CellIds, rsrq \in RsrqValues :
         /\ RsrqCallback(imsi, cell, rsrq)
         /\ Delivered("rsrq", imsi, rsrq)
    /\ UNCHANGED <<pc, script, OutsideTelemetry>>

OnHandoverStart ==
    /\ pc = "run" /\ eventCount < MaxEvents
    /\ \E imsi \in Imsis, src \in CellIds, dst \in CellIds :
         /\ HandoverStartCallback(imsi, src, dst)
         /\ Delivered("ho_start", imsi, dst)
    /\ UNCHANGED <<pc, script, OutsideTelemetry>>

OnHandoverSuccess ==
    /\ pc = "run" /\ eventCount < MaxEvents
    /\ \E imsi \in Imsis, src \in CellIds, dst \in CellIds :
         /\ HandoverSuccessCallback(imsi, src, dst)
         /\ Delivered("ho_success", imsi, dst)
    /\ UNCHANGED <<pc, script, OutsideTelemetry>>

OnHandoverFailure ==
    /\ pc = "run" /\ eventCount < MaxEvents
    /\ \E imsi \in Imsis, src \in CellIds, dst \in CellIds :
         /\ HandoverFailureCallback(imsi, src, dst)
         /\ Delivered("ho_failure", imsi, dst)
    /\ UNCHANGED <<pc, script, OutsideTelemetry>>

\* the callbacks main connects to trace sources (lines 472-487): the SINR
\* callback and the three handover callbacks
NextTelemetry ==
    \/ OnSinr
    \/ OnHandoverStart
    \/ OnHandoverSuccess
    \/ OnHandoverFailure

SpecTelemetry == InitTelemetry /\ [][NextTelemetry]_vars

\* the six callbacks of lines 66-114 called directly, in any order, the two
\* that main leaves unconnected included
NextCallbacks ==
    \/ OnSinr
    \/ OnRsrp
    \/ OnRsrq
    \/ OnHandoverStart
    \/ OnHandoverSuccess
    \/ OnHandoverFailure

SpecCallbacks == InitTelemetry /\ [][NextCallbacks]_vars

\* C10: a SINR callback whose linear SINR is <= 0 changes nothing: not the
\* UE's sum, count, min, max or history, no other UE's state, no handover
\* counter.
C10_NonPositiveSinrIgnored ==
    [][ ( /\ eventCount' = eventCount + 1
          /\ lastEvent'.kind = "sinr"
          /\ lastEvent'.value <= 0 )
        => /\ g_channelMetrics' = g_channelMetrics
           /\ g_sinrHistory' = g_sinrHistory
           /\ g_handoverAttempts' = g_handoverAttempts
           /\ g_handoverSuccess' = g_handoverSuccess
           /\ g_handoverFailures' = g_handoverFailures ]_vars

C10_Witness ==
    /\ lastEvent.kind = "sinr"
    /\ lastEvent.value <= 0
    /\ g_channelMetrics[lastEvent.imsi].samples > 0
    /\ g_sinrHistory[lastEvent.imsi] # <<>>
    /\ g_handoverAttempts > 0

\* C11: each handover callback (start, success, failure) adds exactly one to
\* its own counter (attempts, successes, failures) and leaves the other two
\* counters and every UE's channel metrics and history unchanged; no callback
\* of the run ever lowers or resets a counter.
C11_HandoverCountersOwnIncrement ==
    [][ (eventCount' = eventCount + 1) =>
          LET kind == lastEvent'.kind
              own(k, new, old) == new = old + (IF kind = k THEN 1 ELSE 0)
          IN  /\ own("ho_start", g_handoverAttempts', g_handoverAttempts)
              /\ own("ho_success", g_handoverSuccess', g_handoverSuccess)
              /\ own("ho_failure", g_handoverFailures', g_handoverFailures)
              /\ kind \in {"ho_start", "ho_success", "ho_failure"} =>
                    /\ g_channelMetrics' = g_channelMetrics
                    /\ g_sinrHistory' = g_sinrHistory ]_vars

\* a failure and a success callback were delivered after a SINR sample
C11_Witness ==
    /\ lastEvent.kind = "ho_failure"
    /\ g_handoverFailures = 1
    /\ g_handoverSuccess = 1
    /\ \E u \in Imsis : g_channelMetrics[u].samples > 0

RECURSIVE PositiveDb(_)
\* the dB values of the positive SINR samples among some delivered callbacks
PositiveDb(events) ==
    IF events = <<>> THEN <<>>
    ELSE LET e == Head(events)
         IN  IF e.kind = "sinr" /\ e.value > 0
             THEN <<SinrDbOf(e.value)>> \o PositiveDb(Tail(events))
             ELSE PositiveDb(Tail(events))

RECURSIVE SumOfKind(_, _)
SumOfKind(events, kind) ==
    IF events = <<>> THEN 0
    ELSE (IF Head(events).kind = kind THEN Head(events).value ELSE 0)
            + SumOfKind(Tail(events), kind)

RECURSIVE CountOfKind(_, _)
CountOfKind(events, kind) ==
    IF events = <<>> THEN 0
    ELSE (IF Head(events).kind = kind THEN 1 ELSE 0)
            + CountOfKind(Tail(events), kind)

RECURSIVE SumSeq(_)
SumSeq(seq) == IF seq = <<>> THEN 0 ELSE Head(seq) + SumSeq(Tail(seq))

RECURSIVE LargestOf(_, _)
LargestOf(seq, start) ==
    IF seq = <<>> THEN start
    ELSE LargestOf(Tail(seq), IF Head(seq) > start THEN Head(seq) ELSE start)

RECURSIVE SmallestOf(_, _)
SmallestOf(seq, start) ==
    IF seq = <<>> THEN start
    ELSE SmallestOf(Tail(seq), IF Head(seq) < start THEN Head(seq) ELSE start)

\* what a UE's own callbacks, taken alone and in their order, amount to
OwnMetrics(events) ==
    [sumSinrDb |-> SumSeq(PositiveDb(events)),
     sumRsrpDbm |-> SumOfKind(events, "rsrp"),
     sumRsrqDb |-> SumOfKind(events, "rsrq"),
     samples |-> Len(PositiveDb(events)),
     maxSinr |-> LargestOf(PositiveDb(events), -1000),
     minSinr |-> SmallestOf(PositiveDb(events), 1000)]

OwnHistory(events) ==
    LET db == PositiveDb(events)
    IN  SubSeq(db, Len(db) - Min(Len(db), 1000) + 1, Len(db))

\* C12: however the callbacks of different UEs interleave, the channel
\* metrics and the SINR history of each UE are determined by that UE's own
\* callbacks in their own order, and the three handover counters by the
\* number of handover callbacks of each kind: two interleavings of the same
\* per-UE sequences end in the same state.
C12_StateDependsOnOwnEvents ==
    /\ \A u \in Imsis :
         /\ g_channelMetrics[u] = OwnMetrics(delivered[u])
         /\ g_sinrHistory[u] = OwnHistory(delivered[u])
    /\ g_handoverAttempts =
         CountOfKind(delivered[1], "ho_start")
           + CountOfKind(delivered[2], "ho_start")
    /\ g_handoverSuccess =
         CountOfKind(delivered[1], "ho_success")
           + CountOfKind(delivered[2], "ho_success")
    /\ g_handoverFailures =
         CountOfKind(delivered[1], "ho_failure")
           + CountOfKind(delivered[2], "ho_failure")

\* callbacks of the two UEs have interleaved, both with accepted samples
C12_Witness ==
    /\ Len(delivered[1]) >= 2
    /\ Len(delivered[2]) >= 1
    /\ lastEvent.imsi = 1
    /\ g_channelMetrics[1].samples > 0
    /\ g_channelMetrics[2].samples > 0

---------------------------------------------------------------------------
(* A long scripted replay of SINR callbacks, to fill the history *)

\* the event patterns replayed, over and over, and the length of the replay
Scripts ==
    { << [imsi |-> 1, sinr |-> 100], [imsi |-> 1, sinr |-> 10000],
         [imsi |-> 1, sinr |-> 1000000] >>,
      << [imsi |-> 1, sinr |-> 100], [imsi |-> 1, sinr |-> 0],
         [imsi |-> 2, sinr |-> 1000], [imsi |-> 1, sinr |-> 10000],
         [imsi |-> 1, sinr |-> -1000], [imsi |-> 1, sinr |-> 1000000],
         [imsi |-> 1, sinr |-> 1000] >> }
MaxScriptEvents == 1800

InitHistory ==
    /\ pc = "run"
    /\ numCells = 2
    /\ denseScenario = FALSE
    /\ ISD = PlaceIsd
    /\ baseHeight = PlaceGnbHeight
    /\ gnbPositions = <<>>
    /\ PlaceIdle
    /\ TrafficIdle
    /\ TelemetryStart
    /\ script \in Scripts
    /\ ScoreIdle
    /\ OutputIdle
    /\ BatchIdle

ReplaySinr ==
    /\ pc = "run" /\ eventCount < MaxScriptEvents
    /\ LET ev == script[(eventCount % Len(script)) + 1]
       IN  /\ EnhancedSinrCallback(ev.imsi, ev.sinr)
           /\ Delivered("sinr", ev.imsi, ev.sinr)
    /\ UNCHANGED <<pc, script, OutsideTelemetry>>

NextHistory == ReplaySinr

SpecHistory == InitHistory /\ [][NextHistory]_vars

\* C9: each UE's history never holds more than 1000 entries and is exactly
\* the last min(n, 1000) of the n samples accepted for that UE, in arrival
\* order (the oldest is the one evicted).
C9_HistoryIsLastThousand ==
    \A u \in Imsis :
        LET n == Len(accepted[u])
        IN  /\ Len(g_sinrHistory[u]) <= 1000
            /\ Len(g_sinrHistory[u]) = Min(n, 1000)
            /\ g_sinrHistory[u] = SubSeq(accepted[u], n - Min(n, 1000) + 1, n)

C9_Witness ==
    \E u \in Imsis :
        /\ Len(accepted[u]) > 1001
        /\ Len(g_sinrHistory[u]) = 1000
        /\ g_sinrHistory[u][1] # accepted[u][1]
        /\ lastEvent.kind = "sinr" /\ lastEvent.imsi = u /\ lastEvent.value > 0

---------------------------------------------------------------------------
(* Statistics and scoring pass: the flow loop (lines 572-701) *)

\* std::ofstream out(path): the file is opened (and truncated) if it can be;
\* if it cannot, the stream is left in a failed state that nothing tests and
\* every later << is dropped
OpenFile(fs, f, canOpen) ==
    [fs EXCEPT ![f] = [opens |-> @.opens + 1, written |-> f \in canOpen]]

Hundred == FromInt(100)

\* std::max(0.0, std::min(100.0, x)) without the lower bound
Clamp_NoFloor(x) == RMin(Hundred, x)

\* std::max(0.0, std::min(100.0, x)), lines 652, 665, 739, 744
Clamp(x) == RMax(Zero, RMin(Hundred, x))

\* every flow that is not eMBB taken for URLLC
IsUrllc_AnythingElse(flow) == flow.destinationPort # embbPort

\* lines 576-578
IsEmbb(flow) == flow.destinationPort = embbPort
IsUrllc(flow) == flow.destinationPort = urllcPort

\* lines 581-587: the IMSI of the UE that owns the destination address
\* (UE index i has address index i and IMSI i + 1), 0 when no UE owns it
ImsiOfFlow(flow, nUEs) ==
    IF flow.destinationAddress \in 0..(nUEs - 1) THEN flow.destinationAddress + 1 ELSE 0

Matched(flow, nUEs) ==
    (IsEmbb(flow) \/ IsUrllc(flow)) /\ ImsiOfFlow(flow, nUEs) # 0

\* lines 592-594
AvgSinr(metrics) ==
    IF metrics.samples > 0 THEN Rat(metrics.sumSinrDb, metrics.samples)
    ELSE Zero

RECURSIVE SumSquares(_, _)
SumSquares(history, mean) ==
    IF history = <<>> THEN Zero
    ELSE LET dev == RSub(FromInt(Head(history)), mean)
         IN  RAdd(RMul(dev, dev), SumSquares(Tail(history), mean))

\* the population form: the sum of squares over n instead of n - 1
SinrStdDev_Population(history, mean) ==
    IF Len(history) > 1
    THEN [sqrtOf |-> RDiv(SumSquares(history, mean),
                          FromInt(Len(history)))]
    ELSE [sqrtOf |-> Zero]

\* lines 597-606; the square root is kept symbolic: [sqrtOf |-> variance]
SinrStdDev(history, mean) ==
    IF Len(history) > 1
    THEN [sqrtOf |-> RDiv(SumSquares(history, mean),
                          FromInt(Len(history) - 1))]
    ELSE [sqrtOf |-> Zero]

\* a - b on unsigned counters of w bits: the result is wraps * 2^w + rest,
\* 2^w - (b - a) when b exceeds a
UnsignedDiff(a, b) ==
    IF a >= b THEN [wraps |-> 0, rest |-> a - b]
    ELSE [wraps |-> 1, rest |-> a - b]

\* line 610: uint64_t lostPackets = fs.txPackets - fs.rxPackets
LostPacketsWide(fs) == UnsignedDiff(fs.txPackets, fs.rxPackets)

\* lines 611-612 on such a count: (wraps * 2^w + rest) / over, in percent
PacketLossRatioWide(tx, lost) ==
    IF tx > 0
    THEN [wraps |-> 100 * lost.wraps, rest |-> 100 * lost.rest, over |-> tx]
    ELSE [wraps |-> 0, rest |-> 0, over |-> 1]

\* line 610, for counters with rxPackets <= txPackets
LostPackets(fs) == fs.txPackets - fs.rxPackets

\* lines 611-612
PacketLossRatio(tx, lost) ==
    IF tx > 0 THEN RDiv(FromInt(100 * lost), FromInt(tx)) ELSE Zero

\* line 619, seconds
FlowDuration(fs) == Rat(fs.timeLastRxPacket - fs.timeFirstTxPacket, 1000)

\* lines 614, 618-622, Mbps
Throughput(fs) ==
    IF fs.rxPackets > 0 /\ RLess(Zero, FlowDuration(fs))
    THEN RDiv(FromInt(fs.rxBytes * 8),
              RMul(FlowDuration(fs), FromInt(1000000)))
    ELSE Zero

\* the mean taken over the intervals between packets, as the jitter is
MeanDelay_OverIntervals(fs) ==
    IF fs.rxPackets > 1
    THEN RMul(RDiv(Rat(fs.delaySum, 1000), FromInt(fs.rxPackets - 1)),
              FromInt(1000))
    ELSE Zero

\* lines 615, 618, 623, milliseconds
MeanDelay(fs) ==
    IF fs.rxPackets > 0
    THEN RMul(RDiv(Rat(fs.delaySum, 1000), FromInt(fs.rxPackets)),
              FromInt(1000))
    ELSE Zero

\* lines 616, 618, 625-627, milliseconds
MeanJitter(fs) ==
    IF fs.rxPackets > 1
    THEN RMul(RDiv(Rat(fs.jitterSum, 1000), FromInt(fs.rxPackets - 1)),
              FromInt(1000))
    ELSE Zero

\* "if (value > bound) score *= (bound / value)"
PenaliseAbove(score, value, bound) ==
    IF RLess(bound, value) THEN RMul(score, RDiv(bound, value)) ELSE score

\* "if (value < bound) score *= (value / bound)"
PenaliseBelow(score, value, bound) ==
    IF RLess(value, bound) THEN RMul(score, RDiv(value, bound)) ELSE score

\* lines 639-652
QoeScore_BothClasses(isEmbb, throughput, meanDelay, packetLossRatio, meanJitter) ==
    LET q1 == PenaliseBelow(Hundred, throughput, FromInt(25))
        q2 == PenaliseAbove(q1, meanDelay, FromInt(20))
        q3 == PenaliseAbove(q2, packetLossRatio, FromInt(1))
        q4 == PenaliseAbove(q3, meanDelay, FromInt(5))
        q5 == PenaliseAbove(q4, packetLossRatio, Rat(1, 10))
        q6 == PenaliseAbove(q5, meanJitter, FromInt(2))
    IN  Clamp(q6)

QoeScore(isEmbb, throughput, meanDelay, packetLossRatio, meanJitter) ==
    IF isEmbb
    THEN LET q1 == PenaliseBelow(Hundred, throughput, FromInt(25))
             q2 == PenaliseAbove(q1, meanDelay, FromInt(20))
             q3 == PenaliseAbove(q2, packetLossRatio, FromInt(1))
         IN  Clamp(q3)
    ELSE LET q1 == PenaliseAbove(Hundred, meanDelay, FromInt(5))
             q2 == PenaliseAbove(q1, packetLossRatio, Rat(1, 10))
             q3 == PenaliseAbove(q2, meanJitter, FromInt(2))
         IN  Clamp(q3)

\* lines 654-665
ReliabilityScore_Unguarded(metrics, avgSinr) ==
    LET sinrRange == FromInt(metrics.maxSinr - metrics.minSinr)
        r1 == PenaliseAbove(Hundred, sinrRange, FromInt(20))
        r2 == PenaliseBelow(r1, avgSinr, FromInt(10))
    IN  Clamp(r2)

ReliabilityScore(metrics, avgSinr) ==
    IF metrics.samples > 0
    THEN LET sinrRange == FromInt(metrics.maxSinr - metrics.minSinr)
             r1 == PenaliseAbove(Hundred, sinrRange, FromInt(20))
             r2 == PenaliseBelow(r1, avgSinr, FromInt(10))
         IN  Clamp(r2)
    ELSE Clamp(Hundred)

\* struct CellSummary (lines 557-563) with struct QoEMetrics (lines 43-49)
NewCellSummary ==
    [totalThroughput |-> Zero, totalTx |-> 0, totalRx |-> 0, totalLost |-> 0,
     totalSinr |-> Zero, sinrSamples |-> 0,
     qoe |-> [totalDelay |-> Zero, totalJitter |-> Zero, totalPackets |-> 0,
              sumThroughput |-> Zero, flows |-> 0]]

\* std::map::operator[]: the entry of the key, default-constructed if absent
SummaryOf(summaries, id) ==
    IF id \in DOMAIN summaries THEN summaries[id] ELSE NewCellSummary

PutSummary(summaries, id, summary) ==
    [c \in (DOMAIN summaries) \cup {id} |->
        IF c = id THEN summary ELSE summaries[c]]

\* the fold with the sent packets added to the received total as well
FoldFlow_RxAsTx(summary, row) ==
    [totalThroughput |-> RAdd(summary.totalThroughput, row.Throughput),
     totalTx |-> summary.totalTx + row.TxPackets,
     totalRx |-> summary.totalRx + row.TxPackets,
     totalLost |-> summary.totalLost + row.LostPackets,
     totalSinr |-> RAdd(summary.totalSinr, row.AvgSinr),
     sinrSamples |-> summary.sinrSamples + 1,
     qoe |-> [totalDelay |-> RAdd(summary.qoe.totalDelay, row.MeanDelay),
              totalJitter |-> RAdd(summary.qoe.totalJitter, row.MeanJitter),
              totalPackets |-> summary.qoe.totalPackets + row.RxPackets,
              sumThroughput |-> RAdd(summary.qoe.sumThroughput,
                                     row.Throughput),
              flows |-> summary.qoe.flows + 1]]

\* lines 686-698: the flow, given by the values of its row, joins its cell
FoldFlow(summary, row) ==
    [totalThroughput |-> RAdd(summary.totalThroughput, row.Throughput),
     totalTx |-> summary.totalTx + row.TxPackets,
     totalRx |-> summary.totalRx + row.RxPackets,
     totalLost |-> summary.totalLost + row.LostPackets,
     totalSinr |-> RAdd(summary.totalSinr, row.AvgSinr),
     sinrSamples |-> summary.sinrSamples + 1,
     qoe |-> [totalDelay |-> RAdd(summary.qoe.totalDelay, row.MeanDelay),
              totalJitter |-> RAdd(summary.qoe.totalJitter, row.MeanJitter),
              totalPackets |-> summary.qoe.totalPackets + row.RxPackets,
              sumThroughput |-> RAdd(summary.qoe.sumThroughput,
                                     row.Throughput),
              flows |-> summary.qoe.flows + 1]]

\* lines 672-684: the row of one flow
FlowRow(flowId, flow, imsi, metrics, history, cell, distance) ==
    LET avgSinr == AvgSinr(metrics)
        lostPackets == LostPackets(flow)
        packetLossRatio == PacketLossRatio(flow.txPackets, lostPackets)
        throughput == Throughput(flow)
        meanDelay == MeanDelay(flow)
        meanJitter == MeanJitter(flow)
    IN  [FlowId |-> flowId,
         TrafficType |-> IF IsEmbb(flow) THEN "eMBB" ELSE "URLLC",
         UeImsi |-> imsi,
         ServingCell |-> cell,
         Distance |-> distance,
         DstAddr |-> flow.destinationAddress,
         AvgSinr |-> avgSinr,
         MinSinr |-> metrics.minSinr,
         MaxSinr |-> metrics.maxSinr,
         SinrStdDev |-> SinrStdDev(history, avgSinr),
         TxPackets |-> flow.txPackets,
         RxPackets |-> flow.rxPackets,
         LostPackets |-> lostPackets,
         PacketLossRatio |-> packetLossRatio,
         Throughput |-> throughput,
         MeanDelay |-> meanDelay,
         MeanJitter |-> meanJitter,
         QoEScore |-> QoeScore(IsEmbb(flow), throughput, meanDelay,
                               packetLossRatio, meanJitter),
         ReliabilityScore |-> ReliabilityScore(metrics, avgSinr),
         Numerology |-> 2]

\* one iteration of the flow loop that ends in a "continue" (lines 578, 589)
ScoreSkipFlow ==
    /\ pc = "score_flows"
    /\ flowPos <= Len(stats)
    /\ ~Matched(stats[flowPos], numUEs)
    /\ flowPos' = flowPos + 1
    /\ UNCHANGED <<pc, stats, flowRows, cellSummaries, totalSystemThroughput,
                   totalUrllcDelay, totalEmbbDelay, urllcFlows, embbFlows,
                   maxCellThroughput, scoreCellId, cellRows, OutsideScore,
                   outputVars>>

\* one full iteration of the flow loop (lines 572-701)
ScoreFlow ==
    /\ pc = "score_flows"
    /\ flowPos <= Len(stats)
    /\ Matched(stats[flowPos], numUEs)
    /\ LET flow == stats[flowPos]
           imsi == ImsiOfFlow(flow, numUEs)
           cell == g_imsiToCell[imsi]
           row == FlowRow(flowPos, flow, imsi, g_channelMetrics[imsi],
                          g_sinrHistory[imsi], cell, g_imsiDistance[imsi])
       IN  /\ IF IsUrllc(flow)
              THEN /\ totalUrllcDelay' = RAdd(totalUrllcDelay, row.MeanDelay)
                   /\ urllcFlows' = urllcFlows + 1
                   /\ UNCHANGED <<totalEmbbDelay, embbFlows>>
              ELSE /\ totalEmbbDelay' = RAdd(totalEmbbDelay, row.MeanDelay)
                   /\ embbFlows' = embbFlows + 1
                   /\ UNCHANGED <<totalUrllcDelay, urllcFlows>>
           /\ flowRows' = Append(flowRows, row)
           /\ cellSummaries' =
                PutSummary(cellSummaries, cell,
                           FoldFlow(SummaryOf(cellSummaries, cell), row))
           /\ totalSystemThroughput' =
                RAdd(totalSystemThroughput, row.Throughput)
    /\ flowPos' = flowPos + 1
    /\ UNCHANGED <<pc, stats, maxCellThroughput, scoreCellId, cellRows,
                   OutsideScore, outputVars>>

---------------------------------------------------------------------------
(* Statistics and scoring pass: the cell statistics (lines 703-762) *)

RECURSIVE MaxThroughputOver(_, _, _)
\* lines 714-717: std::max folded over the entries of cellSummaries
MaxThroughputOver(summaries, cells, start) ==
    IF cells = {} THEN start
    ELSE LET c == CHOOSE x \in cells : \A y \in cells : x <= y
         IN  MaxThroughputOver(summaries, cells \ {c},
                               RMax(start, summaries[c].totalThroughput))

\* the share of the busiest cell as a fraction instead of a percentage
LoadBalance_AsFraction(totalThroughput, maxThroughput) ==
    IF RLess(Zero, maxThroughput)
    THEN RDiv(totalThroughput, maxThroughput)
    ELSE Zero

\* lines 747-748
LoadBalance(totalThroughput, maxThroughput) ==
    IF RLess(Zero, maxThroughput)
    THEN RMul(RDiv(totalThroughput, maxThroughput), Hundred)
    ELSE Zero

\* std::unordered_map::operator[] on g_cellUeCount: 0 for an absent key
\* (the map is held as a function on the cells, an absent key as a 0 entry)
CellUeCount(counts, id) == IF id \in DOMAIN counts THEN counts[id] ELSE 0

\* lines 720-760: the row of one cell
CellRow(id, summary, maxThroughput, ueCount) ==
    LET packetLossRatio == PacketLossRatio(summary.totalTx, summary.totalLost)
        avgSinr == IF summary.sinrSamples > 0
                   THEN RDiv(summary.totalSinr, FromInt(summary.sinrSamples))
                   ELSE Zero
        avgDelay == IF summary.qoe.flows > 0
                    THEN RDiv(summary.qoe.totalDelay,
                              FromInt(summary.qoe.flows))
                    ELSE Zero
        avgJitter == IF summary.qoe.flows > 0
                     THEN RDiv(summary.qoe.totalJitter,
                               FromInt(summary.qoe.flows))
                     ELSE Zero
        spectralEfficiency ==
            RDiv(RMul(summary.totalThroughput, FromInt(1000000)),
                 FromInt(100000000))
        q1 == PenaliseAbove(Hundred, avgDelay, FromInt(10))
        q2 == PenaliseAbove(q1, packetLossRatio, FromInt(1))
        q3 == PenaliseBelow(q2, avgSinr, FromInt(15))
        r1 == RSub(Hundred, RMul(packetLossRatio, FromInt(10)))
        r2 == PenaliseBelow(r1, avgSinr, FromInt(10))
    IN  [CellId |-> id,
         NumUEs |-> ueCount,
         TotalThroughput |-> summary.totalThroughput,
         SpectralEfficiency |-> spectralEfficiency,
         TxPackets |-> summary.totalTx,
         RxPackets |-> summary.totalRx,
         LostPackets |-> summary.totalLost,
         PacketLossRatio |-> packetLossRatio,
         AvgSINR |-> avgSinr,
         AvgDelay |-> avgDelay,
         AvgJitter |-> avgJitter,
         CellQoEScore |-> Clamp(q3),
         CellReliability |-> Clamp(r2),
         LoadBalance |-> LoadBalance(summary.totalThroughput, maxThroughput)]

\* the flow loop ends; lines 703-717
ScoreFlowsDone ==
    /\ pc = "score_flows"
    /\ flowPos > Len(stats)
    /\ maxCellThroughput' =
         MaxThroughputOver(cellSummaries, DOMAIN cellSummaries, Zero)
    /\ scoreCellId' = 0
    /\ files' = OpenFile(files, "cell", openable)
    /\ pc' = "score_cells"
    /\ UNCHANGED <<stats, flowPos, flowRows, cellSummaries,
                   totalSystemThroughput, totalUrllcDelay, totalEmbbDelay,
                   urllcFlows, embbFlows, cellRows, OutsideScore,
                   systemStats, dirCreatable, openable, exitStatus>>

\* the cell loop writing rows only for the cells the flow loop has met
ScoreCell_OnlyKnownCells ==
    /\ pc = "score_cells"
    /\ scoreCellId < numCells
    /\ IF scoreCellId \in DOMAIN cellSummaries
       THEN cellRows' =
              Append(cellRows,
                     CellRow(scoreCellId, cellSummaries[scoreCellId],
                             maxCellThroughput,
                             CellUeCount(g_cellUeCount, scoreCellId)))
       ELSE cellRows' = cellRows
    /\ scoreCellId' = scoreCellId + 1
    /\ UNCHANGED <<pc, stats, flowPos, flowRows, cellSummaries,
                   totalSystemThroughput, totalUrllcDelay, totalEmbbDelay,
                   urllcFlows, embbFlows, maxCellThroughput, OutsideScore,
                   outputVars>>

\* one iteration of the cell loop (lines 719-760)
ScoreCell ==
    /\ pc = "score_cells"
    /\ scoreCellId < numCells
    /\ LET summary == SummaryOf(cellSummaries, scoreCellId)
       IN  /\ cellSummaries' = PutSummary(cellSummaries, scoreCellId, summary)
           /\ cellRows' =
                Append(cellRows,
                       CellRow(scoreCellId, summary, maxCellThroughput,
                               CellUeCount(g_cellUeCount, scoreCellId)))
    /\ scoreCellId' = scoreCellId + 1
    /\ UNCHANGED <<pc, stats, flowPos, flowRows, totalSystemThroughput,
                   totalUrllcDelay, totalEmbbDelay, urllcFlows, embbFlows,
                   maxCellThroughput, OutsideScore, outputVars>>

\* the cell loop ends; line 762
ScoreCellsDone ==
    /\ pc = "score_cells"
    /\ scoreCellId >= numCells
    /\ pc' = "scored"
    /\ UNCHANGED <<scoreVars, OutsideScore, outputVars>>

---------------------------------------------------------------------------
(* Statistics and scoring pass: system statistics, configuration file and  *)
(* console summary (lines 764-883)                                         *)

\* the results of a double division by zero
NaN == [n |-> 0, d |-> 0]
PlusInfinity == [n |-> 1, d |-> 0]
MinusInfinity == [n |-> -1, d |-> 0]

\* a / b in double arithmetic, b possibly (positive) zero
DoubleDiv(a, b) ==
    IF b.n # 0 THEN RDiv(a, b)
    ELSE IF a.n = 0 THEN NaN
    ELSE IF a.n > 0 THEN PlusInfinity ELSE MinusInfinity

\* "(count > 0) ? (total / count) : 0.0"
GuardedMean(total, count) ==
    IF count > 0 THEN RDiv(total, FromInt(count)) ELSE Zero

\* lines 795-796: users per square kilometre.  M_PI is kept symbolic: the
\* value is [overPi |-> q], standing for q / pi, where
\* q = numUEs / ((ISD * 1.2)^2 * numCells * 1e-6)
UserDensity(nUEs, nCells, isd) ==
    LET side == Rat(isd * 12, 10)
        areaOverPi == RMul(RMul(side, side), FromInt(nCells))
    IN  [overPi |->
            DoubleDiv(FromInt(nUEs), RMul(areaOverPi, Rat(1, 1000000)))]

\* lines 768-805: the metrics of the system statistics file
SystemStats ==
    [TotalSystemThroughput |-> totalSystemThroughput,
     AvgThroughputPerCell |->
        DoubleDiv(totalSystemThroughput, FromInt(numCells)),
     AvgThroughputPerUE |-> DoubleDiv(totalSystemThroughput, FromInt(numUEs)),
     AvgURLLCDelay |-> GuardedMean(totalUrllcDelay, urllcFlows),
     AvgEmbbDelay |-> GuardedMean(totalEmbbDelay, embbFlows),
     HandoverAttempts |-> g_handoverAttempts,
     HandoverSuccess |-> g_handoverSuccess,
     HandoverFailures |-> g_handoverFailures,
     HandoverSuccessRate |->
        IF g_handoverAttempts > 0
        THEN Rat(100 * g_handoverSuccess, g_handoverAttempts)
        ELSE Zero,
     SystemSpectralEfficiency |->
        DoubleDiv(RMul(totalSystemThroughput, FromInt(1000000)),
                  FromInt(100000000 * numCells)),
     UserDensity |-> UserDensity(numUEs, numCells, ISD),
     NumCells |-> numCells,
     NumUEs |-> numUEs,
     InterSiteDistance |-> ISD]

\* lines 764-808
WriteSystemStats ==
    /\ pc = "scored"
    /\ systemStats' = SystemStats
    /\ files' = OpenFile(files, "system", openable)
    /\ pc' = "system_written"
    /\ UNCHANGED <<scoreVars, OutsideScore, dirCreatable, openable,
                   exitStatus>>

\* lines 810-848
WriteConfig ==
    /\ pc = "system_written"
    /\ files' = OpenFile(files, "config", openable)
    /\ pc' = "config_written"
    /\ UNCHANGED <<scoreVars, OutsideScore, systemStats, dirCreatable,
                   openable, exitStatus>>

\* lines 850-883: the console summary with its list of generated files,
\* Simulator::Destroy() and return 0
Finish ==
    /\ pc = "config_written"
    /\ exitStatus' = "ok"
    /\ pc' = "done"
    /\ UNCHANGED <<scoreVars, OutsideScore, systemStats, files, dirCreatable,
                   openable>>

---------------------------------------------------------------------------
(* The scoring pass on the flow statistics of a finished run *)

\* FlowStats and five-tuple of a flow: times in milliseconds, the destination
\* address as the index of the UE that owns it (-1: an address of no UE)
Flow(port, dst, tx, rx, bytes, delay, jitter) ==
    [destinationPort |-> port, destinationAddress |-> dst,
     txPackets |-> tx, rxPackets |-> rx, rxBytes |-> bytes,
     delaySum |-> delay, jitterSum |-> jitter,
     timeFirstTxPacket |-> 1000, timeLastRxPacket |-> 11000]

\* UE 0 is the eMBB UE and UE 1 the URLLC UE (numUEs = 2, embbRatio = 0.5)
FlowSet ==
    { Flow(urllcPort, 1, 1000, 1000, 125000, 5000, 0),
      Flow(urllcPort, 1, 1000, 1000, 125000, 5001, 0),
      Flow(urllcPort, 1, 1000, 990, 123750, 9900, 3956),
      [Flow(urllcPort, 1, 0, 0, 0, 0, 0) EXCEPT !.timeLastRxPacket = 0],
      Flow(embbPort, 0, 1000, 1000, 31250000, 10000, 999),
      Flow(embbPort, 0, 1000, 500, 15625000, 20000, 0),
      [Flow(embbPort, 0, 10, 0, 0, 0, 0) EXCEPT !.timeLastRxPacket = 0],
      Flow(9, 0, 1000, 1000, 125000, 5000, 0),
      Flow(embbPort, -1, 1000, 1000, 125000, 5000, 0) }

MaxFlows == 2

\* the flow monitor holds at most one flow per traffic sink
StatsSet ==
    { st \in UNION { [1..n -> FlowSet] : n \in 0..MaxFlows } :
        \A a, b \in DOMAIN st :
            (a # b /\ Matched(st[a], 2) /\ Matched(st[b], 2))
                => st[a].destinationAddress # st[b].destinationAddress }

\* the linear SINR samples (thousandths) a UE reported during the run
SampleScripts ==
    { <<>>, <<10000>>, <<100, 100>>, <<10, 1000000>>, <<100000, 1000000>> }

RECURSIVE MetricsAfter(_)
\* the ChannelMetrics left by EnhancedSinrCallback on these positive samples
MetricsAfter(samples) ==
    IF samples = <<>> THEN NewChannelMetrics
    ELSE UpdateMetrics(MetricsAfter(SubSeq(samples, 1, Len(samples) - 1)),
                       SinrDbOf(samples[Len(samples)]))

RECURSIVE HistoryAfter(_)
HistoryAfter(samples) ==
    IF samples = <<>> THEN <<>>
    ELSE PushHistory(HistoryAfter(SubSeq(samples, 1, Len(samples) - 1)),
                     SinrDbOf(samples[Len(samples)]))

InitScore ==
    /\ pc = "score_flows"
    /\ numCells = 2
    /\ denseScenario = FALSE
    /\ ISD = PlaceIsd
    /\ baseHeight = PlaceGnbHeight
    /\ gnbPositions = <<>>
    /\ numUEs = 2
    /\ uesPerCell = <<>>
    /\ cellId = 0
    /\ jPlaced = 0
    /\ ueIndex = 0
    /\ uePos = <<>>
    /\ setPositionCalls = <<>>
    /\ placedBy = <<>>
    /\ TrafficIdle
    /\ \E samples \in [Imsis -> SampleScripts] :
         /\ g_channelMetrics = [u \in Imsis |-> MetricsAfter(samples[u])]
         /\ g_sinrHistory = [u \in Imsis |-> HistoryAfter(samples[u])]
         /\ accepted = g_sinrHistory
         /\ delivered =
              [u \in Imsis |->
                 [k \in 1..Len(samples[u]) |->
                    [kind |-> "sinr", value |-> samples[u][k]]]]
         /\ eventCount = Len(samples[1]) + Len(samples[2])
    /\ g_handoverAttempts = 0
    /\ g_handoverSuccess = 0
    /\ g_handoverFailures = 0
    /\ lastEvent = NoEvent
    /\ script = <<>>
    /\ g_imsiToCell \in [Imsis -> 0..(numCells - 1)]
    /\ g_imsiDistance =
         [u \in Imsis |-> [sqrtOf |-> Wide(10000 * u, 0), rank |-> 0]]
    /\ rounding = [u \in Imsis |-> [c \in 0..(numCells - 1) |-> 0]]
    /\ g_cellUeCount =
         [c \in 0..(numCells - 1) |->
            Cardinality({u \in Imsis : g_imsiToCell[u] = c})]
    /\ stats \in StatsSet
    /\ flowPos = 1
    /\ flowRows = <<>>
    /\ cellSummaries = <<>>
    /\ totalSystemThroughput = Zero
    /\ totalUrllcDelay = Zero
    /\ totalEmbbDelay = Zero
    /\ urllcFlows = 0
    /\ embbFlows = 0
    /\ maxCellThroughput = Zero
    /\ scoreCellId = 0
    /\ cellRows = <<>>
    /\ systemStats = <<>>
    /\ dirCreatable = TRUE
    /\ openable = Files
    /\ files = OpenFile(NoFilesYet, "flow", openable)
    /\ exitStatus = "running"
    /\ BatchIdle

NextScore ==
    \/ ScoreSkipFlow
    \/ ScoreFlow
    \/ ScoreFlowsDone
    \/ ScoreCell
    \/ ScoreCellsDone
    \/ WriteSystemStats
    \/ WriteConfig
    \/ Finish

SpecScore == InitScore /\ [][NextScore]_vars

InRange(x) == RLeq(Zero, x) /\ RLeq(x, Hundred)

\* C6: every flow QoE score, flow reliability score, cell QoE score and cell
\* reliability figure written to the output lies within [0, 100], whatever
\* the throughput, delay, jitter, loss and SINR statistics are (negative
\* average SINR and zero samples included).
C6_ScoresWithinBounds ==
    /\ \A i \in 1..Len(flowRows) :
         /\ InRange(flowRows[i].QoEScore)
         /\ InRange(flowRows[i].ReliabilityScore)
    /\ \A i \in 1..Len(cellRows) :
         /\ InRange(cellRows[i].CellQoEScore)
         /\ InRange(cellRows[i].CellReliability)

\* a finished pass with a flow of a UE of negative average SINR, a flow of a
\* UE without samples, a flow score strictly inside the range and a lossy
\* cell of negative average SINR
C6_Witness ==
    /\ pc = "scored"
    /\ \E i \in 1..Len(flowRows) :
         /\ RLess(flowRows[i].AvgSinr, Zero)
         /\ flowRows[i].ReliabilityScore = Zero
    /\ \E i \in 1..Len(flowRows) :
         /\ g_channelMetrics[flowRows[i].UeImsi].samples = 0
         /\ flowRows[i].ReliabilityScore = Hundred
    /\ \E i \in 1..Len(flowRows) :
         /\ RLess(Zero, flowRows[i].QoEScore)
         /\ RLess(flowRows[i].QoEScore, Hundred)
    /\ \E i \in 1..Len(cellRows) :
         /\ RLess(cellRows[i].AvgSINR, Zero)
         /\ RLess(FromInt(10), cellRows[i].PacketLossRatio)

\* the largest TotalThroughput among the rows of the cell statistics file
IsMaxRowThroughput(m) ==
    /\ \E i \in 1..Len(cellRows) : cellRows[i].TotalThroughput = m
    /\ \A i \in 1..Len(cellRows) : RLeq(cellRows[i].TotalThroughput, m)

\* C7 as stated: in every finished pass, runs without any throughput
\* included, the LoadBalance of a cell of maximum accumulated throughput is
\* exactly 100 and that of every other cell is 100 * cell / max.
C7_MaxCellIsHundredAlways ==
    pc = "scored" =>
        \A i \in 1..Len(cellRows) :
            LET t == cellRows[i].TotalThroughput
            IN  \A j \in 1..Len(cellRows) :
                    LET m == cellRows[j].TotalThroughput
                    IN  IsMaxRowThroughput(m) =>
                          cellRows[i].LoadBalance =
                            IF t = m THEN Hundred
                            ELSE RDiv(RMul(Hundred, t), m)

\* C7 amended: whenever some cell has throughput, the LoadBalance of a cell
\* of maximum accumulated throughput is exactly 100 and that of every other
\* cell is 100 * cell / max; when no cell has any throughput, every
\* LoadBalance is 0.
C7_LoadBalanceRelativeToMax ==
    pc = "scored" =>
        \A i \in 1..Len(cellRows) :
            LET t == cellRows[i].TotalThroughput
            IN  \A j \in 1..Len(cellRows) :
                    LET m == cellRows[j].TotalThroughput
                    IN  IsMaxRowThroughput(m) =>
                          cellRows[i].LoadBalance =
                            IF RLess(Zero, m)
                            THEN (IF t = m THEN Hundred
                                  ELSE RDiv(RMul(Hundred, t), m))
                            ELSE Zero

\* a finished pass with two loaded cells, one at 100 and one below
C7_Witness ==
    /\ pc = "scored"
    /\ \E i \in 1..Len(cellRows) : cellRows[i].LoadBalance = Hundred
    /\ \E i \in 1..Len(cellRows) :
         /\ RLess(Zero, cellRows[i].LoadBalance)
         /\ RLess(cellRows[i].LoadBalance, Hundred)

\* C8: the URLLC delay penalty applies only above 5 ms: a URLLC flow with
\* txPackets = rxPackets = 1000, delaySum = 5 s and jitterSum = 0 has a mean
\* delay of exactly 5 ms and a QoE score of 100, and a URLLC flow within the
\* loss and jitter bounds scores below 100 exactly when its mean delay
\* exceeds 5 ms.
C8_UrllcDelayBoundaryStrict ==
    \A i \in 1..Len(flowRows) :
        LET row == flowRows[i]
            fs == stats[row.FlowId]
        IN  row.TrafficType = "URLLC" =>
              /\ ( /\ fs.txPackets = 1000 /\ fs.rxPackets = 1000
                   /\ fs.delaySum = 5000 /\ fs.jitterSum = 0 )
                 => /\ row.MeanDelay = FromInt(5)
                    /\ row.QoEScore = Hundred
              /\ ( /\ RLeq(row.PacketLossRatio, Rat(1, 10))
                   /\ RLeq(row.MeanJitter, FromInt(2)) )
                 => (RLess(row.QoEScore, Hundred)
                        <=> RLess(FromInt(5), row.MeanDelay))

\* the boundary flow has been scored
C8_Witness ==
    \E i \in 1..Len(flowRows) :
        LET fs == stats[flowRows[i].FlowId]
        IN  /\ flowRows[i].TrafficType = "URLLC"
            /\ fs.txPackets = 1000 /\ fs.rxPackets = 1000
            /\ fs.delaySum = 5000 /\ fs.jitterSum = 0
            /\ flowRows[i].MeanDelay = FromInt(5)

\* the flow under the iterator has a foreign port or a foreign address
ForeignFlowNext ==
    /\ pc = "score_flows"
    /\ flowPos <= Len(stats)
    /\ \/ stats[flowPos].destinationPort \notin {7000, 7001}
       \/ stats[flowPos].destinationAddress \notin 0..(numUEs - 1)

\* C14: a flow whose destination port is neither 7000 nor 7001, or whose
\* destination address belongs to no UE, is discarded: the iteration over it
\* writes no flow row and changes no cell summary, no per-class flow count
\* or delay sum and not the system throughput, and no row ever carries the
\* id of such a flow.
C14_ForeignFlowsDiscarded ==
    /\ [][ForeignFlowNext =>
            /\ flowPos' = flowPos + 1
            /\ flowRows' = flowRows
            /\ cellSummaries' = cellSummaries
            /\ urllcFlows' = urllcFlows
            /\ embbFlows' = embbFlows
            /\ totalUrllcDelay' = totalUrllcDelay
            /\ totalEmbbDelay' = totalEmbbDelay
            /\ totalSystemThroughput' = totalSystemThroughput]_vars
    /\ [](\A i \in 1..Len(flowRows) :
            LET flow == stats[flowRows[i].FlowId]
            IN  /\ flow.destinationPort \in {7000, 7001}
                /\ flow.destinationAddress \in 0..(numUEs - 1))

\* a finished pass over a foreign-port flow followed by a matched flow
C14_Witness ==
    /\ pc = "scored"
    /\ Len(stats) = 2
    /\ stats[1].destinationPort = 9
    /\ Len(flowRows) = 1
    /\ flowRows[1].FlowId = 2

---------------------------------------------------------------------------
(* UE-cell association (lines 490-510) *)

\* the squared distance, in square millimetres, between two positions as
\* the model holds them
DistanceSquared(a, b) ==
    WideAdd(WideAdd(Square(a[1] - b[1]), Square(a[2] - b[2])),
            Square(a[3] - b[3]))

\* The program holds positions and distances in doubles (r * 0.866,
\* r * cos(angle), ...); the model holds each coordinate as a whole number of
\* millimetres, less than 1.9 mm from the program's for a cell (two cuts to
\* the millimetre below) and less than 3.2 mm for a UE (its cell and its
\* radius), so a distance of the model lies less than 8 mm from the double
\* that CalculateDistance returns.  Two distances of the model that are less
\* than Resolution apart do not tell how the two doubles compare: the
\* doubles may be equal or differ either way.
Resolution == 16

\* the distance with square a is at least Resolution below the distance
\* with square b: sqrt(a) + Resolution <= sqrt(b), that is
\* (b - a - Resolution^2) / (2 * Resolution) >= sqrt(a); squares 10^9 apart
\* are that far apart for every distance below 30 km
Apart(a, b) ==
    LET high == b.hi - a.hi
    IN  IF high >= 1000 THEN TRUE
        ELSE IF high < 0 THEN FALSE
        ELSE LET gap == high * 1000000 + (b.lo - a.lo)
                           - Resolution * Resolution
             IN  /\ gap >= 0
                 /\ ~WideLess(Square(gap \div (2 * Resolution)), a)

RECURSIVE WeakOrders(_, _)
\* The orders in which the doubles of the distances to the first j cells
\* may stand, d2s[i] being the squared distance of the model to cell i - 1:
\* a sequence of ranks (equal rank, equal doubles; ranks 0..m without gaps)
\* that keeps every two distances Apart in their order.
WeakOrders(d2s, j) ==
    IF j = 0 THEN { <<>> }
    ELSE LET Levels(r) == Cardinality({ r[i] : i \in DOMAIN r })
             Joined(r) == { Append(r, k) : k \in 0..(Levels(r) - 1) }
             Between(r) ==
                 { Append([i \in DOMAIN r |->
                             IF r[i] >= k THEN r[i] + 1 ELSE r[i]], k) :
                     k \in 0..Levels(r) }
             Kept(r) ==
                 \A i \in 1..(j - 1) :
                     /\ Apart(d2s[i], d2s[j]) => r[i] < r[j]
                     /\ Apart(d2s[j], d2s[i]) => r[j] < r[i]
         IN  { r \in UNION { Joined(p) \cup Between(p) :
                               p \in WeakOrders(d2s, j - 1) } : Kept(r) }

\* line 498 for every cell: the orders in which the doubles of the
\* distances from pos to cells 0..nCells-1 may stand, cell -> rank
Roundings(pos, positions, nCells) ==
    LET d2s == [i \in 1..nCells |->
                  DistanceSquared(pos, GnbPosition(positions, i - 1))]
    IN  { [c \in 0..(nCells - 1) |-> r[c + 1]] : r \in WeakOrders(d2s, nCells) }

\* line 498: the distance from pos to cell j, as the model holds it
\* (sqrtOf, the square of it) and as its double stands among the doubles
\* of this UE's distances (rank)
Distance(pos, positions, r, j) ==
    [sqrtOf |-> DistanceSquared(pos, GnbPosition(positions, j)),
     rank |-> r[j]]

\* minDistance = std::numeric_limits<double>::max()
NoDistance == [sqrtOf |-> [hi |-> -1, lo |-> 0], rank |-> 2147483647]

\* a < b on the doubles of two distances of one UE
Below(a, b) == a.rank < b.rank

\* the comparison letting an equal distance replace the cell found so far
DistanceLess_OrEqual(distance, minDistance) ==
    minDistance = NoDistance \/ ~Below(minDistance, distance)

\* line 500: distance < minDistance
DistanceLess(distance, minDistance) ==
    minDistance = NoDistance \/ Below(distance, minDistance)

RECURSIVE ClosestFrom_OneBased(_, _, _, _, _, _)
\* the inner loop recording the 1-based position of the cell
ClosestFrom_OneBased(pos, positions, r, j, nCells, best) ==
    IF j >= nCells THEN best
    ELSE LET distance == Distance(pos, positions, r, j)
         IN  ClosestFrom_OneBased(pos, positions, r, j + 1, nCells,
                IF DistanceLess(distance, best.minDistance)
                THEN [closestCell |-> j + 1, minDistance |-> distance]
                ELSE best)

RECURSIVE ClosestFrom(_, _, _, _, _, _)
\* lines 496-504: the inner loop from cell j on
ClosestFrom(pos, positions, r, j, nCells, best) ==
    IF j >= nCells THEN best
    ELSE LET distance == Distance(pos, positions, r, j)
         IN  ClosestFrom(pos, positions, r, j + 1, nCells,
                IF DistanceLess(distance, best.minDistance)
                THEN [closestCell |-> j, minDistance |-> distance]
                ELSE best)

\* lines 493-504
ClosestCell(pos, positions, r, nCells) ==
    ClosestFrom(pos, positions, r, 0, nCells,
                [closestCell |-> 0, minDistance |-> NoDistance])

\* operator[] assignment on an unordered_map
PutEntry(map, key, value) ==
    [k \in (DOMAIN map) \cup {key} |-> IF k = key THEN value ELSE map[k]]

\* one iteration of the association loop (lines 491-510), UE index iLoop
AssociateUe ==
    /\ pc = "associate"
    /\ iLoop < numUEs
    /\ \E r \in Roundings(uePos[iLoop], gnbPositions, numCells) :
         LET found == ClosestCell(uePos[iLoop], gnbPositions, r, numCells)
             imsi == iLoop + 1
         IN  /\ g_imsiToCell' = PutEntry(g_imsiToCell, imsi, found.closestCell)
             /\ g_imsiDistance' =
                  PutEntry(g_imsiDistance, imsi, found.minDistance)
             /\ g_cellUeCount' =
                  PutEntry(g_cellUeCount, found.closestCell,
                           CellUeCount(g_cellUeCount, found.closestCell) + 1)
             /\ rounding' = PutEntry(rounding, imsi, r)
    /\ iLoop' = iLoop + 1
    /\ UNCHANGED <<pc, layoutVars, placeVars, embbRatio, numEmbbUEs, embbUEs,
                   urllcUEs, perUeRateBps, serverApps, clientApps, telemVars,
                   scoreVars, outputVars, batchVars>>

\* the association loop ends and Simulator::Run() starts (lines 512-539)
AssociateDone ==
    /\ pc = "associate"
    /\ iLoop >= numUEs
    /\ pc' = "run"
    /\ UNCHANGED <<layoutVars, placeVars, trafficVars, telemVars, assocVars,
                   scoreVars, outputVars, batchVars>>

---------------------------------------------------------------------------
(* A whole run: association, Simulator::Run() with its callbacks, scoring *)

Ev(kind, imsi, value) == [kind |-> kind, imsi |-> imsi, value |-> value]

\* the callbacks the simulator delivers during one run, in simulated-time
\* order (value: the linear SINR in thousandths, or the target cell)
RunScripts ==
    { << >>,
      << Ev("sinr", 1, 10000), Ev("ho_start", 1, 1), Ev("ho_success", 1, 1),
         Ev("sinr", 1, 1000000) >>,
      << Ev("sinr", 2, 100), Ev("sinr", 2, 0), Ev("sinr", 1, 100000),
         Ev("ho_start", 2, 0), Ev("ho_failure", 2, 0), Ev("sinr", 2, 10) >>,
      << Ev("sinr", 1, 10), Ev("sinr", 1, 1000), Ev("sinr", 2, 10000),
         Ev("sinr", 1, -1000), Ev("sinr", 1, 1000000) >> }

\* the flow statistics the monitor may hold when the run is over
RunStatsSet == { st \in StatsSet : Len(st) = 2 /\ Matched(st[2], 2) }

\* --numUEs of the run
RunUeCounts == {0, 2}

\* which of the output files the file system lets the run open
OpenableChoices == {Files, Files \ {"flow"}, {"flow", "cell"}}

\* double embbRatio = 0.6, in tenths
DefaultEmbbRatio == 6

RunCellCounts == {1, 2, 3}

InitRun ==
    /\ pc = "start"
    /\ numCells \in RunCellCounts
    /\ denseScenario = FALSE
    /\ ISD = PlaceIsd
    /\ baseHeight = PlaceGnbHeight
    /\ gnbPositions = <<>>
    /\ numUEs \in RunUeCounts
    /\ uesPerCell = <<>>
    /\ cellId = 0
    /\ jPlaced = 0
    /\ ueIndex = 0
    /\ uePos = <<>>
    /\ setPositionCalls = <<>>
    /\ placedBy = <<>>
    /\ embbRatio = DefaultEmbbRatio
    /\ numEmbbUEs = 0
    /\ embbUEs = <<>>
    /\ urllcUEs = <<>>
    /\ iLoop = 0
    /\ perUeRateBps = 0
    /\ serverApps = <<>>
    /\ clientApps = <<>>
    /\ TelemetryStart
    /\ script \in (IF numUEs = 0 THEN {<< >>} ELSE RunScripts)
    /\ g_imsiToCell = <<>>
    /\ g_imsiDistance = <<>>
    /\ g_cellUeCount = [c \in 0..(numCells - 1) |-> 0]
    /\ rounding = <<>>
    /\ stats = <<>>
    /\ flowPos = 0
    /\ flowRows = <<>>
    /\ cellSummaries = <<>>
    /\ totalSystemThroughput = Zero
    /\ totalUrllcDelay = Zero
    /\ totalEmbbDelay = Zero
    /\ urllcFlows = 0
    /\ embbFlows = 0
    /\ maxCellThroughput = Zero
    /\ scoreCellId = 0
    /\ cellRows = <<>>
    /\ systemStats = <<>>
    /\ dirCreatable \in BOOLEAN
    /\ openable \in OpenableChoices
    /\ files = NoFilesYet
    /\ exitStatus = "running"
    /\ BatchIdle

\* main, lines 287-299: the output directory is created, or
\* std::filesystem::create_directories throws and the uncaught exception
\* terminates the program; then the seed is set and the nodes are created
SetUpRun ==
    /\ pc = "start"
    /\ IF dirCreatable
       THEN /\ pc' = "layout"
            /\ UNCHANGED exitStatus
       ELSE /\ pc' = "aborted"
            /\ exitStatus' = "aborted"
    /\ UNCHANGED <<layoutVars, placeVars, trafficVars, telemVars, assocVars,
                   scoreVars, systemStats, files, dirCreatable, openable,
                   batchVars>>

\* main, lines 309-316: the gNBs take the positions of the layout, every UE
\* gets a ConstantPositionMobilityModel (at the origin) and
\* DistributeUsersOptimized is called
InstallMobility ==
    /\ pc = "layout_done"
    /\ uePos' = [i \in 0..(numUEs - 1) |-> Vector(0, 0, 0)]
    /\ setPositionCalls' = [i \in 0..(numUEs - 1) |-> 0]
    /\ placedBy' = [i \in 0..(numUEs - 1) |-> NotPlaced]
    /\ pc' = "place"
    /\ UNCHANGED <<layoutVars, numUEs, uesPerCell, cellId, jPlaced, ueIndex,
                   OutsidePlace>>

\* main, lines 318-387: the radio and core network helpers, devices and
\* addresses are set up; the placement is left as it is
ConfigureNetwork ==
    /\ pc = "place_done"
    /\ pc' = "traffic"
    /\ UNCHANGED <<layoutVars, placeVars, OutsidePlace>>

\* main, lines 468-491: the UEs are attached, the SINR and handover traces
\* of every UE are connected, and the association loop starts
ConnectTraces ==
    /\ pc = "apps_done"
    /\ iLoop' = 0
    /\ pc' = "associate"
    /\ UNCHANGED <<OutsideTraffic, numUEs, embbRatio, numEmbbUEs, embbUEs,
                   urllcUEs, perUeRateBps, serverApps, clientApps>>

\* Simulator::Run() (line 539) delivers the next callback of the run
RunEvent ==
    /\ pc = "run"
    /\ eventCount < Len(script)
    /\ LET ev == script[eventCount + 1]
       IN  /\ CASE ev.kind = "sinr" -> EnhancedSinrCallback(ev.imsi, ev.value)
                [] ev.kind = "ho_start" ->
                     HandoverStartCallback(ev.imsi, g_imsiToCell[ev.imsi],
                                           ev.value)
                [] ev.kind = "ho_success" ->
                     HandoverSuccessCallback(ev.imsi, g_imsiToCell[ev.imsi],
                                             ev.value)
                [] ev.kind = "ho_failure" ->
                     HandoverFailureCallback(ev.imsi, g_imsiToCell[ev.imsi],
                                             ev.value)
           /\ Delivered(ev.kind, ev.imsi, ev.value)
    /\ UNCHANGED <<pc, script, OutsideTelemetry>>

\* the scoring pass starts whether or not callbacks remain to be delivered
RunReturns_Early ==
    /\ pc = "run"
    /\ stats' \in (IF numUEs = 0 THEN {<< >>} ELSE RunStatsSet)
    /\ flowPos' = 1
    /\ files' = OpenFile(files, "flow", openable)
    /\ pc' = "score_flows"
    /\ UNCHANGED <<flowRows, cellSummaries, totalSystemThroughput,
                   totalUrllcDelay, totalEmbbDelay, urllcFlows, embbFlows,
                   maxCellThroughput, scoreCellId, cellRows, OutsideScore,
                   systemStats, dirCreatable, openable, exitStatus>>

\* Simulator::Run() returns once its event list is exhausted; the flow
\* statistics are fetched and the scoring pass starts (lines 539-572)
RunReturns ==
    /\ pc = "run"
    /\ eventCount = Len(script)
    /\ stats' \in (IF numUEs = 0 THEN {<< >>} ELSE RunStatsSet)
    /\ flowPos' = 1
    /\ files' = OpenFile(files, "flow", openable)
    /\ pc' = "score_flows"
    /\ UNCHANGED <<flowRows, cellSummaries, totalSystemThroughput,
                   totalUrllcDelay, totalEmbbDelay, urllcFlows, embbFlows,
                   maxCellThroughput, scoreCellId, cellRows, OutsideScore,
                   systemStats, dirCreatable, openable, exitStatus>>

NextRun ==
    \/ SetUpRun
    \/ CreateLayout
    \/ InstallMobility
    \/ PlaceBegin
    \/ PlaceEnterCell
    \/ PlaceInCell
    \/ PlaceLeaveCell
    \/ PlaceCellsDone
    \/ PlaceReturn
    \/ ConfigureNetwork
    \/ ComputeNumEmbb
    \/ ClassifyUe
    \/ ComputeRate
    \/ InstallEmbbApp
    \/ EmbbAppsDone
    \/ InstallUrllcApp
    \/ UrllcAppsDone
    \/ ConnectTraces
    \/ AssociateUe
    \/ AssociateDone
    \/ RunEvent
    \/ RunReturns
    \/ ScoreSkipFlow
    \/ ScoreFlow
    \/ ScoreFlowsDone
    \/ ScoreCell
    \/ ScoreCellsDone
    \/ WriteSystemStats
    \/ WriteConfig
    \/ Finish

SpecRun == InitRun /\ [][NextRun]_vars

\* the association loop has run to its end
AttachOver ==
    pc \notin {"start", "aborted", "layout", "layout_done", "place",
               "place_outer", "place_inner", "place_scatter", "place_done",
               "traffic", "classify", "embb_apps", "urllc_apps", "apps_done",
               "associate"}

\* C13: once the association loop is over every UE has exactly one serving
\* cell, a cell index in 0..numCells-1, recorded before the run starts, and
\* from then on no step (no callback of the run, handover callbacks included,
\* and no step of the scoring pass) changes the UE-to-cell map or the stored
\* distances.
C13_ServingCellFixedAtAttach ==
    /\ [](AttachOver =>
            /\ DOMAIN g_imsiToCell = 1..numUEs
            /\ DOMAIN g_imsiDistance = 1..numUEs
            /\ \A u \in 1..numUEs : g_imsiToCell[u] \in 0..(numCells - 1))
    /\ [][AttachOver =>
            /\ g_imsiToCell' = g_imsiToCell
            /\ g_imsiDistance' = g_imsiDistance]_vars

\* a finished run with a successful handover, a UE outside cell 0, and a
\* flow row written
C13_Witness ==
    /\ pc = "scored"
    /\ g_handoverSuccess > 0
    /\ \E u \in DOMAIN g_imsiToCell : g_imsiToCell[u] # 0
    /\ flowRows # <<>>

\* no flow row names this cell as its serving cell
CellWithoutFlows(c) ==
    \A i \in 1..Len(flowRows) : flowRows[i].ServingCell # c

\* C15: the cell statistics hold exactly one row per cell index 0..N-1, in
\* ascending order, whichever cells have flows, and the row of a cell without
\* any matched flow is all-zero: throughput, spectral efficiency, packets,
\* loss ratio, averages, CellQoEScore, CellReliability and LoadBalance.
C15_OneRowPerCellZeroIfIdle ==
    /\ Len(cellRows) <= numCells
    /\ pc = "scored" => Len(cellRows) = numCells
    /\ \A i \in 1..Len(cellRows) :
         LET row == cellRows[i]
         IN  /\ row.CellId = i - 1
             /\ CellWithoutFlows(i - 1) =>
                  /\ row.TotalThroughput = Zero
                  /\ row.SpectralEfficiency = Zero
                  /\ row.TxPackets = 0
                  /\ row.RxPackets = 0
                  /\ row.LostPackets = 0
                  /\ row.PacketLossRatio = Zero
                  /\ row.AvgSINR = Zero
                  /\ row.AvgDelay = Zero
                  /\ row.AvgJitter = Zero
                  /\ row.CellQoEScore = Zero
                  /\ row.CellReliability = Zero
                  /\ row.LoadBalance = Zero

\* a finished run over three cells, one loaded and one without flows
C15_Witness ==
    /\ pc = "scored"
    /\ numCells = 3
    /\ \E c \in 0..2 : CellWithoutFlows(c)
    /\ \E i \in 1..Len(cellRows) : RLess(Zero, cellRows[i].TotalThroughput)

\* a double that is a number, neither NaN nor an infinity
IsFinite(x) == x.d # 0

\* C16: scoring is total: every derived ratio of the system statistics is a
\* finite number whatever the counts, and a ratio whose denominator is zero
\* (throughput per UE with numUEs = 0) is reported as 0.
C16_RatiosGuardedNoAbort ==
    systemStats # <<>> =>
        /\ IsFinite(systemStats.AvgThroughputPerCell)
        /\ IsFinite(systemStats.AvgThroughputPerUE)
        /\ IsFinite(systemStats.AvgURLLCDelay)
        /\ IsFinite(systemStats.AvgEmbbDelay)
        /\ IsFinite(systemStats.HandoverSuccessRate)
        /\ IsFinite(systemStats.SystemSpectralEfficiency)
        /\ IsFinite(systemStats.UserDensity.overPi)
        /\ numUEs = 0 => systemStats.AvgThroughputPerUE = Zero
        /\ urllcFlows = 0 => systemStats.AvgURLLCDelay = Zero
        /\ embbFlows = 0 => systemStats.AvgEmbbDelay = Zero
        /\ g_handoverAttempts = 0 => systemStats.HandoverSuccessRate = Zero

\* the guarded ratios of the system statistics: with no URLLC flow, no eMBB
\* flow or no handover attempt the mean delay and the success rate are 0
C16_GuardedRatiosAreZero ==
    systemStats # <<>> =>
        /\ urllcFlows = 0 => systemStats.AvgURLLCDelay = Zero
        /\ embbFlows = 0 => systemStats.AvgEmbbDelay = Zero
        /\ g_handoverAttempts = 0 => systemStats.HandoverSuccessRate = Zero

\* C17: a run that cannot create its output directory or cannot open one of
\* its four output files does not complete normally: whenever the run has
\* returned 0 after its summary of generated files, the directory was
\* created and every output file was written.
C17_ResourceFailureAborts ==
    exitStatus = "ok" =>
        /\ dirCreatable
        /\ \A f \in Files : files[f].written

\* the half of it the code does provide: without the output directory the
\* run never returns 0
C17_NoDirectoryNoCompletion ==
    ~dirCreatable => exitStatus # "ok"

\* the scoring pass has begun
ScoringBegun ==
    pc \in {"score_flows", "score_cells", "scored", "system_written",
            "config_written", "done"}

\* how many callbacks of one kind the whole run holds
ScriptCount(kind) ==
    Cardinality({k \in 1..Len(script) : script[k].kind = kind})

\* C18: the scoring pass runs once, after the event loop has drained: when
\* scoring has begun every callback of the run has been delivered, no step
\* taken from then on changes the telemetry state, the flow rows and the
\* system statistics carry the accumulators and handover counters of the
\* whole run, and each of the four output files is opened once, never twice.
C18_ScoringOnceAfterDrain ==
    /\ [](ScoringBegun => eventCount = Len(script))
    /\ [][ScoringBegun => UNCHANGED telemVars]_vars
    /\ [](\A i \in 1..Len(flowRows) :
            LET row == flowRows[i]
                final == OwnMetrics(delivered[row.UeImsi])
            IN  /\ row.AvgSinr = AvgSinr(final)
                /\ row.MinSinr = final.minSinr
                /\ row.MaxSinr = final.maxSinr)
    /\ [](systemStats # <<>> =>
            /\ systemStats.HandoverAttempts = ScriptCount("ho_start")
            /\ systemStats.HandoverSuccess = ScriptCount("ho_success")
            /\ systemStats.HandoverFailures = ScriptCount("ho_failure"))
    /\ [](Len(flowRows) <= Len(stats))
    /\ [](\A f \in Files : files[f].opens <= 1)
    /\ [](pc = "done" => \A f \in Files : files[f].opens = 1)

\* a completed run with handovers and SINR samples, a flow row written and
\* all four files opened
C18_Witness ==
    /\ pc = "done"
    /\ g_handoverAttempts > 0
    /\ eventCount > 3
    /\ flowRows # <<>>
    /\ \A f \in Files : files[f].opens = 1

\* the sum over a sequence of integers x of (n * x - total)^2
RECURSIVE ScaledSquares(_, _, _)
ScaledSquares(seq, n, total) ==
    IF seq = <<>> THEN 0
    ELSE (n * Head(seq) - total) * (n * Head(seq) - total)
            + ScaledSquares(Tail(seq), n, total)

\* C19: for the SINR samples the run delivered for a UE, its flow rows report
\* AvgSinr = (sum of the accepted dB samples) / (their number), and
\* SinrStdDev = sqrt( sum over the history of (x - AvgSinr)^2 / (h - 1) ) for
\* a history of h > 1 samples, and 0 for a history of at most one sample.
C19_MeanAndBesselStdDev ==
    \A i \in 1..Len(flowRows) :
        LET row == flowRows[i]
            db == PositiveDb(delivered[row.UeImsi])
            n == Len(db)
            total == SumSeq(db)
            history == g_sinrHistory[row.UeImsi]
            h == Len(history)
        IN  /\ n > 0 => row.AvgSinr = Rat(total, n)
            /\ n = 0 => row.AvgSinr = Zero
            /\ h > 1 =>
                  row.SinrStdDev =
                     [sqrtOf |-> Rat(ScaledSquares(history, n, total),
                                     n * n * (h - 1))]
            /\ h <= 1 => row.SinrStdDev = [sqrtOf |-> Zero]

\* the samples -20, 0 and 30 dB (and a rejected non-positive one) of one UE
\* scored as mean 10/3 and standard deviation sqrt(1900/3), next to a UE
\* with a single sample scored with standard deviation 0
C19_Witness ==
    /\ pc = "done"
    /\ \E i \in 1..Len(flowRows) :
         /\ flowRows[i].AvgSinr = Rat(10, 3)
         /\ flowRows[i].SinrStdDev = [sqrtOf |-> Rat(1900, 3)]
    /\ \E i \in 1..Len(flowRows) :
         /\ Len(g_sinrHistory[flowRows[i].UeImsi]) = 1
         /\ flowRows[i].SinrStdDev = [sqrtOf |-> Zero]

\* 100, times 20/range when the SINR range exceeds 20 dB, times avgSinr/10
\* when avgSinr is below 10 dB, cut to [0, 100]
PenalisedReliability(row) ==
    LET range == FromInt(row.MaxSinr - row.MinSinr)
        afterRange == IF RLess(FromInt(20), range)
                      THEN RMul(Hundred, RDiv(FromInt(20), range))
                      ELSE Hundred
        afterAvg == IF RLess(row.AvgSinr, FromInt(10))
                    THEN RMul(afterRange, RDiv(row.AvgSinr, FromInt(10)))
                    ELSE afterRange
    IN  RMax(Zero, RMin(Hundred, afterAvg))

\* the number of SINR samples behind a flow row
SamplesOf(row) == g_channelMetrics[row.UeImsi].samples

\* C20 as stated: the reliability score of every flow row, whatever the
\* state of its UE, a UE without SINR samples (avgSinr = 0) included, is
\* 100 penalised by the SINR range and by the low average, cut to [0, 100].
C20_PenalisedForEveryUe ==
    \A i \in 1..Len(flowRows) :
        flowRows[i].ReliabilityScore = PenalisedReliability(flowRows[i])

\* C20: the reliability score of the flow row of a UE with at least one
\* SINR sample is 100 penalised by the SINR range and by the low average,
\* cut to [0, 100]; the row of a UE without SINR samples scores 100.
C20_PenalisedWhenSampled ==
    \A i \in 1..Len(flowRows) :
        /\ SamplesOf(flowRows[i]) > 0 =>
              flowRows[i].ReliabilityScore = PenalisedReliability(flowRows[i])
        /\ SamplesOf(flowRows[i]) = 0 =>
              /\ flowRows[i].AvgSinr = Zero
              /\ flowRows[i].ReliabilityScore = Hundred

\* rows of a UE without samples, of a UE penalised on both counts to a score
\* strictly between 0 and 100, and of a UE whose negative average is cut to 0
C20_Witness ==
    /\ \E i \in 1..Len(flowRows) : SamplesOf(flowRows[i]) = 0
    /\ \E i \in 1..Len(flowRows) :
         /\ SamplesOf(flowRows[i]) > 0
         /\ flowRows[i].MaxSinr - flowRows[i].MinSinr > 20
         /\ RLess(Zero, flowRows[i].AvgSinr)
         /\ RLess(flowRows[i].AvgSinr, FromInt(10))
         /\ RLess(Zero, flowRows[i].ReliabilityScore)
         /\ RLess(flowRows[i].ReliabilityScore, Hundred)

\* "bound / value" when the value lies above its bound, else 1
FactorAbove(value, bound) ==
    IF RLess(bound, value) THEN RDiv(bound, value) ELSE FromInt(1)

\* "value / bound" when the value lies below its bound, else 1
FactorBelow(value, bound) ==
    IF RLess(value, bound) THEN RDiv(value, bound) ELSE FromInt(1)

\* the factors of the thresholds of the row's own traffic class
QoeFactors(row) ==
    IF row.TrafficType = "eMBB"
    THEN << FactorBelow(row.Throughput, FromInt(25)),
            FactorAbove(row.MeanDelay, FromInt(20)),
            FactorAbove(row.PacketLossRatio, FromInt(1)) >>
    ELSE << FactorAbove(row.MeanDelay, FromInt(5)),
            FactorAbove(row.PacketLossRatio, Rat(1, 10)),
            FactorAbove(row.MeanJitter, FromInt(2)) >>

\* how many thresholds of its own class the row violates
ViolatedCount(row) ==
    Cardinality({k \in 1..3 : QoeFactors(row)[k] # FromInt(1)})

\* C21: the QoE score of every flow row is 100 times the product of the
\* factors of the violated thresholds of its own class (eMBB: throughput
\* below 25 Mbps, delay above 20 ms, loss above 1 %; URLLC: delay above 5 ms,
\* loss above 0.1 %, jitter above 2 ms), cut to [0, 100]; the thresholds of
\* the other class play no part and a row violating none scores 100.
C21_QoeIsProductOfViolatedFactors ==
    \A i \in 1..Len(flowRows) :
        LET row == flowRows[i]
            f == QoeFactors(row)
            product == RMul(Hundred, RMul(f[1], RMul(f[2], f[3])))
        IN  /\ row.TrafficType \in {"eMBB", "URLLC"}
            /\ row.QoEScore = RMax(Zero, RMin(Hundred, product))
            /\ ViolatedCount(row) = 0 => row.QoEScore = Hundred

\* an eMBB row whose delay lies above the URLLC bound and whose score is 100
\* next to a URLLC row, slower than 25 Mbps, that violates its three
\* thresholds and scores strictly between 0 and 100
C21_Witness ==
    /\ \E i \in 1..Len(flowRows) :
         /\ flowRows[i].TrafficType = "eMBB"
         /\ RLess(FromInt(5), flowRows[i].MeanDelay)
         /\ flowRows[i].QoEScore = Hundred
    /\ \E i \in 1..Len(flowRows) :
         /\ flowRows[i].TrafficType = "URLLC"
         /\ RLess(flowRows[i].Throughput, FromInt(25))
         /\ ViolatedCount(flowRows[i]) = 3
         /\ RLess(Zero, flowRows[i].QoEScore)
         /\ RLess(flowRows[i].QoEScore, Hundred)

\* the dB values of the positive SINR samples delivered for a UE so far
AcceptedDb(u) ==
    LET events == delivered[u]
        kept == {k \in 1..Len(events) :
                   events[k].kind = "sinr" /\ events[k].value > 0}
    IN  [k \in kept |-> SinrDbOf(events[k].value)]

RECURSIVE SumOver(_, _)
SumOver(f, keys) ==
    IF keys = {} THEN 0
    ELSE LET k == CHOOSE x \in keys : TRUE
         IN  f[k] + SumOver(f, keys \ {k})

\* the metrics of every UE agree with the samples delivered for it
MetricsMatchSamples ==
    \A u \in Imsis :
        LET m == g_channelMetrics[u]
            db == AcceptedDb(u)
            values == {db[k] : k \in DOMAIN db}
        IN  /\ m.samples = Cardinality(DOMAIN db)
            /\ m.sumSinrDb = SumOver(db, DOMAIN db)
            /\ m.samples > 0 =>
                  /\ m.minSinr \in values
                  /\ m.maxSinr \in values
                  /\ \A v \in values : m.minSinr <= v /\ v <= m.maxSinr
                  /\ m.minSinr * m.samples <= m.sumSinrDb
                  /\ m.sumSinrDb <= m.maxSinr * m.samples

\* an RSRP or RSRQ callback adds its value to its own running sum of its own
\* UE and changes nothing else of the telemetry state
OwnSumOnly ==
    LET ev == lastEvent'
        field == IF ev.kind = "rsrp" THEN "sumRsrpDbm" ELSE "sumRsrqDb"
    IN  (eventCount' = eventCount + 1 /\ ev.kind \in {"rsrp", "rsrq"}) =>
            /\ g_channelMetrics' =
                 [g_channelMetrics EXCEPT ![ev.imsi][field] = @ + ev.value]
            /\ UNCHANGED <<g_sinrHistory, handoverVars>>

\* C22: in every reachable state and for every UE the sample count is the
\* number of positive SINR samples delivered for it so far, the running sum
\* is the sum of their dB values, and with samples > 0 minSinr and maxSinr
\* are the smallest and the largest accepted dB sample and enclose the mean;
\* no step lowers a sample count, and an RSRP or RSRQ callback changes only
\* its own running sum.
C22_MetricsTrackAcceptedSamples ==
    /\ []MetricsMatchSamples
    /\ [][\A u \in Imsis :
            g_channelMetrics'[u].samples >= g_channelMetrics[u].samples]_vars
    /\ [][OwnSumOnly]_vars

\* a UE with two different accepted samples and an RSRP report behind it
C22_Witness ==
    \E u \in Imsis :
        /\ g_channelMetrics[u].samples = 2
        /\ g_channelMetrics[u].minSinr < g_channelMetrics[u].maxSinr
        /\ g_channelMetrics[u].sumRsrpDbm # 0
        /\ lastEvent.kind = "rsrp"

\* floor(ueCount / cellCount), plus one for the first (ueCount mod cellCount)
\* cells
EvenQuota(c) ==
    (numUEs \div numCells) + (IF c < numUEs % numCells THEN 1 ELSE 0)

RECURSIVE QuotaBefore(_, _)
\* the sum of quota(0), ..., quota(c - 1)
QuotaBefore(quota(_), c) ==
    IF c <= 0 THEN 0 ELSE quota(c - 1) + QuotaBefore(quota, c - 1)

\* the UE indices given their position by the loop of cell c
PlacedInCell(c) == {i \in DOMAIN placedBy : placedBy[i] = ByCell(c)}

\* C23: in the Sparse scenario with at least one cell, the quota of cell i is
\* floor(ueCount / cellCount) plus one if i < ueCount mod cellCount, the
\* quotas add up to ueCount, and the placement loop gives cell i exactly its
\* quota, as the block of UE indices that follows the blocks of the cells
\* before it.
C23_SparseQuotaBlocks ==
    (~denseScenario /\ numCells >= 1 /\ pc # "place") =>
        /\ uesPerCell = [c \in 1..numCells |-> EvenQuota(c - 1)]
        /\ QuotaBefore(EvenQuota, numCells) = numUEs
        /\ \A c \in 0..(numCells - 1) :
             LET first == QuotaBefore(EvenQuota, c)
                 block == first..(first + EvenQuota(c) - 1)
             IN  /\ PlacedInCell(c) \subseteq block
                 /\ \A i \in PlacedInCell(c) :
                      \A k \in first..i : k \in PlacedInCell(c)
                 /\ pc = "place_done" => PlacedInCell(c) = block
        /\ \A i \in DOMAIN placedBy : placedBy[i] # ByScatter

\* four UEs placed over three cells: blocks {0, 1}, {2}, {3}
C23_Witness ==
    /\ pc = "place_done"
    /\ ~denseScenario
    /\ numCells = 3
    /\ numUEs = 4
    /\ PlacedInCell(0) = {0, 1}
    /\ PlacedInCell(1) = {2}
    /\ PlacedInCell(2) = {3}

\* the even quota, scaled to floor(1.5 x quota) for cell 0 and for cell
\* cellCount / 2
SkewedQuota(c) ==
    IF c = 0 \/ c = numCells \div 2
    THEN (3 * EvenQuota(c)) \div 2
    ELSE EvenQuota(c)

\* the UEs still without a position when the loop reaches cell c
UnplacedBefore(c) == Max(0, numUEs - QuotaBefore(SkewedQuota, c))

\* C24: in the Dense scenario (at least one cell) only cell 0 and cell
\* cellCount / 2 have their quota scaled, to floor(1.5 x quota), once even
\* when both are the same cell; the cells are filled in index order until
\* ueCount UEs are placed, so that on return each cell holds
\* min(its quota, the UEs still unplaced) UEs, as one block, and every cell
\* after a cell that fell short is empty.
C24_DenseSkewAndEarlyStop ==
    (denseScenario /\ numCells >= 1 /\ pc # "place") =>
        /\ uesPerCell = [c \in 1..numCells |-> SkewedQuota(c - 1)]
        /\ \A c \in 0..(numCells - 1) :
             LET first == Min(numUEs, QuotaBefore(SkewedQuota, c))
                 share == Min(SkewedQuota(c), UnplacedBefore(c))
                 block == first..(first + share - 1)
             IN  /\ PlacedInCell(c) \subseteq block
                 /\ pc = "place_done" =>
                      /\ PlacedInCell(c) = block
                      /\ share < SkewedQuota(c) =>
                           \A later \in (c + 1)..(numCells - 1) :
                               PlacedInCell(later) = {}

\* four UEs over three cells: quotas 3, 1, 1 add up to five, cell 0 takes
\* three UEs, cell 1 one, and cell 2 is left without any
C24_Witness ==
    /\ pc = "place_done"
    /\ denseScenario
    /\ numCells = 3
    /\ numUEs = 4
    /\ QuotaBefore(SkewedQuota, numCells) > numUEs
    /\ PlacedInCell(0) = {0, 1, 2}
    /\ PlacedInCell(1) = {3}
    /\ PlacedInCell(2) = {}

\* the UE indices given their position by the scatter loop
Scattered == {i \in DOMAIN placedBy : placedBy[i] = ByScatter}

\* the cell loop stopped with cells left over, the Dense quotas adding up to
\* more than ueCount
SkewEarlyStop ==
    /\ denseScenario
    /\ numCells >= 1
    /\ pc \in {"place_scatter", "place_done"}
    /\ QuotaBefore(SkewedQuota, numCells) > numUEs

\* a position (mm) inside the square of half-width 1.5 x ISD about the origin
InScatterSquare(pos) ==
    /\ -1500 * ISD <= pos[1] /\ pos[1] <= 1500 * ISD
    /\ -1500 * ISD <= pos[2] /\ pos[2] <= 1500 * ISD

\* the sum of the quotas of all cells in the scenario of the run
QuotaSum ==
    IF denseScenario THEN QuotaBefore(SkewedQuota, numCells)
    ELSE QuotaBefore(EvenQuota, numCells)

\* C25 as stated: the Dense skew-induced early stop leaves UEs unplaced when
\* the cell loop is over, and the scatter step places them inside the square.
C25_SkewLeavesUesToScatter ==
    /\ (SkewEarlyStop /\ pc = "place_scatter" /\ Scattered = {}) =>
            ueIndex < numUEs
    /\ (SkewEarlyStop /\ pc = "place_done") => Scattered # {}
    /\ \A i \in Scattered : InScatterSquare(uePos[i])

\* C25: with at least one cell the quotas add up to at least ueCount in both
\* scenarios, so the cell loop places every UE and the scatter step places
\* none, the Dense early stop included; a UE the scatter step does place
\* lies inside the square of half-width 1.5 x ISD centred at the origin.
C25_ScatterOnlyWithoutCells ==
    /\ (numCells >= 1 /\ pc # "place") =>
          /\ QuotaSum >= numUEs
          /\ Scattered = {}
          /\ pc = "place_scatter" => ueIndex = numUEs
    /\ \A i \in Scattered : InScatterSquare(uePos[i])

\* three UEs over two Dense cells with quotas 3 and 1: the cell loop stops
\* early and nobody is left for the scatter step
C25_Witness ==
    /\ SkewEarlyStop
    /\ pc = "place_done"
    /\ numCells = 2
    /\ numUEs = 3
    /\ PlacedInCell(0) = {0, 1, 2}
    /\ Scattered = {}

\* the squared distance of the model between the UE with this IMSI and
\* cell c
SquaredToCell(imsi, c) ==
    DistanceSquared(uePos[imsi - 1], GnbPosition(gnbPositions, c))

\* the distance the program computed between that UE and cell c
ToCell(imsi, c) == Distance(uePos[imsi - 1], gnbPositions, rounding[imsi], c)

\* Cell c is a nearest cell of the UE, the lowest of the equally near ones:
\* the doubles of the UE's distances stand in an order its position allows,
\* no cell is nearer than c by the resolution of the positions or more, no
\* cell has a smaller double than c, and every cell of lower index has a
\* greater one
NearestLowest(imsi, c) ==
    /\ rounding[imsi] \in Roundings(uePos[imsi - 1], gnbPositions, numCells)
    /\ \A other \in 0..(numCells - 1) :
         /\ ~Apart(SquaredToCell(imsi, other), SquaredToCell(imsi, c))
         /\ ToCell(imsi, other).rank >= ToCell(imsi, c).rank
    /\ \A lower \in 0..(c - 1) :
         ToCell(imsi, lower).rank > ToCell(imsi, c).rank

RECURSIVE NumUEsOver(_)
\* the NumUEs column added up over the first k cell rows
NumUEsOver(k) == IF k = 0 THEN 0 ELSE cellRows[k].NumUEs + NumUEsOver(k - 1)

RowsOfCell(c) ==
    SelectSeq(flowRows, LAMBDA row : g_imsiToCell[row.UeImsi] = c)

RECURSIVE CountOver(_, _)
\* an integer column added up over rows
CountOver(rows, column) ==
    IF rows = <<>> THEN 0
    ELSE Head(rows)[column] + CountOver(Tail(rows), column)

RECURSIVE ThroughputOver(_)
\* the throughput added up over rows
ThroughputOver(rows) ==
    IF rows = <<>> THEN Zero
    ELSE RAdd(Head(rows).Throughput, ThroughputOver(Tail(rows)))

\* the summary of cell c holds the rows of the UEs served by c, no others
CellHoldsItsRows(c) ==
    LET summary == SummaryOf(cellSummaries, c)
        rows == RowsOfCell(c)
    IN  /\ summary.totalThroughput = ThroughputOver(rows)
        /\ summary.totalTx = CountOver(rows, "TxPackets")
        /\ summary.totalRx = CountOver(rows, "RxPackets")
        /\ summary.totalLost = CountOver(rows, "LostPackets")
        /\ summary.qoe.flows = Len(rows)

RECURSIVE FlowsInCells(_)
\* the flow counts of the cell summaries 0..c-1 added up
FlowsInCells(c) ==
    IF c = 0 THEN 0
    ELSE SummaryOf(cellSummaries, c - 1).qoe.flows + FlowsInCells(c - 1)

\* C27: every flow row is folded into the summary of the serving cell of its
\* UE and into no other: per cell, throughput, sent, received and lost
\* packets and the flow count are the sums over that cell's rows; the flow
\* counts of all cells add up to embbFlows + urllcFlows, the number of flow
\* rows; and TotalSystemThroughput is the sum of the rows' throughput.
C27_AggregationConservative ==
    /\ \A i \in 1..Len(flowRows) :
         /\ flowRows[i].ServingCell = g_imsiToCell[flowRows[i].UeImsi]
         /\ flowRows[i].ServingCell \in 0..(numCells - 1)
    /\ DOMAIN cellSummaries \subseteq 0..(numCells - 1)
    /\ \A c \in 0..(numCells - 1) : CellHoldsItsRows(c)
    /\ FlowsInCells(numCells) = Len(flowRows)
    /\ embbFlows + urllcFlows = Len(flowRows)
    /\ totalSystemThroughput = ThroughputOver(flowRows)
    /\ systemStats # <<>> =>
         systemStats.TotalSystemThroughput = ThroughputOver(flowRows)

\* the flow pass is over with two rows in two different cells, packets
\* lost, and a positive system throughput
C27_Witness ==
    /\ pc = "done"
    /\ Len(flowRows) = 2
    /\ flowRows[1].ServingCell # flowRows[2].ServingCell
    /\ flowRows[1].LostPackets + flowRows[2].LostPackets > 0
    /\ RLess(Zero, totalSystemThroughput)

---------------------------------------------------------------------------
(* The flow loop (lines 572-701) on one flow whose received packets may    *)
(* outnumber the sent ones                                                  *)

MaxPackets == 10

\* the flows the monitor may hold: of either traffic class or of another
\* port, to the UE or to an address no UE owns
LossPorts == {urllcPort, embbPort, 9}
LossAddresses == {0, -1}

InitLoss ==
    /\ pc = "score_loss"
    /\ numCells = 1
    /\ denseScenario = FALSE
    /\ ISD = PlaceIsd
    /\ baseHeight = PlaceGnbHeight
    /\ gnbPositions = <<>>
    /\ numUEs = 1
    /\ uesPerCell = <<>>
    /\ cellId = 0
    /\ jPlaced = 0
    /\ ueIndex = 0
    /\ uePos = <<>>
    /\ setPositionCalls = <<>>
    /\ placedBy = <<>>
    /\ TrafficIdle
    /\ TelemetryIdle
    /\ g_imsiToCell = [u \in {1} |-> 0]
    /\ g_imsiDistance = [u \in {1} |-> [sqrtOf |-> Wide(10000, 0), rank |-> 0]]
    /\ g_cellUeCount = [c \in {0} |-> 1]
    /\ rounding = [u \in {1} |-> [c \in {0} |-> 0]]
    /\ \E port \in LossPorts, dst \in LossAddresses,
          tx \in 0..MaxPackets, rx \in 0..MaxPackets :
         stats = << Flow(port, dst, tx, rx, 125 * rx, 5 * rx, 0) >>
    /\ flowPos = 1
    /\ flowRows = <<>>
    /\ cellSummaries = <<>>
    /\ totalSystemThroughput = Zero
    /\ totalUrllcDelay = Zero
    /\ totalEmbbDelay = Zero
    /\ urllcFlows = 0
    /\ embbFlows = 0
    /\ maxCellThroughput = Zero
    /\ scoreCellId = 0
    /\ cellRows = <<>>
    /\ OutputIdle
    /\ BatchIdle

\* lines 573-589: a flow of another port, or to an address that no UE owns,
\* is passed over
ScoreLossSkip ==
    /\ pc = "score_loss"
    /\ flowPos <= Len(stats)
    /\ ~Matched(stats[flowPos], numUEs)
    /\ flowPos' = flowPos + 1
    /\ UNCHANGED <<pc, stats, flowRows, cellSummaries, totalSystemThroughput,
                   totalUrllcDelay, totalEmbbDelay, urllcFlows, embbFlows,
                   maxCellThroughput, scoreCellId, cellRows, OutsideScore,
                   outputVars>>

\* lines 639-652 on a loss ratio in the unsigned arithmetic of the counters:
\* a ratio that carries a wrap is above either bound, and the score is the
\* score without the loss penalty times bound / ratio (scaled / by)
QoeScoreWide(isEmbb, throughput, meanDelay, lossRatio, meanJitter) ==
    IF lossRatio.wraps = 0
    THEN QoeScore(isEmbb, throughput, meanDelay,
                  Rat(lossRatio.rest, lossRatio.over), meanJitter)
    ELSE [scaled |-> RMul(QoeScore(isEmbb, throughput, meanDelay, Zero,
                                   meanJitter),
                          IF isEmbb THEN FromInt(1) ELSE Rat(1, 10)),
          by |-> lossRatio]

\* lines 608-684: the row of one flow, its three columns that come from
\* lostPackets in the unsigned arithmetic of the counters
LossRow(flowId, flow, imsi, metrics, history, cell, distance) ==
    LET row == FlowRow(flowId, flow, imsi, metrics, history, cell, distance)
        lostPackets == LostPacketsWide(flow)
        packetLossRatio == PacketLossRatioWide(flow.txPackets, lostPackets)
    IN  [row EXCEPT !.LostPackets = lostPackets,
                    !.PacketLossRatio = packetLossRatio,
                    !.QoEScore = QoeScoreWide(IsEmbb(flow), row.Throughput,
                                              row.MeanDelay, packetLossRatio,
                                              row.MeanJitter)]

\* lines 686-698 for the first flow of its cell: totalLost (uint64_t) takes
\* the count as line 610 left it
FoldLoss(summary, row) ==
    [FoldFlow(summary, [row EXCEPT !.LostPackets = 0])
        EXCEPT !.totalLost = [wraps |-> row.LostPackets.wraps,
                              rest |-> summary.totalLost
                                          + row.LostPackets.rest]]

\* one full iteration of the flow loop (lines 572-701) for the flow at
\* flowPos, of one of the two classes and to a UE
ScoreLoss ==
    /\ pc = "score_loss"
    /\ flowPos <= Len(stats)
    /\ Matched(stats[flowPos], numUEs)
    /\ LET flow == stats[flowPos]
           imsi == ImsiOfFlow(flow, numUEs)
           cell == g_imsiToCell[imsi]
           row == LossRow(flowPos, flow, imsi, g_channelMetrics[imsi],
                          g_sinrHistory[imsi], cell, g_imsiDistance[imsi])
       IN  /\ IF IsUrllc(flow)
              THEN /\ totalUrllcDelay' = RAdd(totalUrllcDelay, row.MeanDelay)
                   /\ urllcFlows' = urllcFlows + 1
                   /\ UNCHANGED <<totalEmbbDelay, embbFlows>>
              ELSE /\ totalEmbbDelay' = RAdd(totalEmbbDelay, row.MeanDelay)
                   /\ embbFlows' = embbFlows + 1
                   /\ UNCHANGED <<totalUrllcDelay, urllcFlows>>
           /\ flowRows' = Append(flowRows, row)
           /\ cellSummaries' =
                PutSummary(cellSummaries, cell,
                           FoldLoss(SummaryOf(cellSummaries, cell), row))
           /\ totalSystemThroughput' =
                RAdd(totalSystemThroughput, row.Throughput)
    /\ flowPos' = flowPos + 1
    /\ UNCHANGED <<pc, stats, maxCellThroughput, scoreCellId, cellRows,
                   OutsideScore, outputVars>>

NextLoss == ScoreLossSkip \/ ScoreLoss

SpecLoss == InitLoss /\ [][NextLoss]_vars

\* C28: for every flow, whatever its counters (more packets received than
\* sent included), LostPackets is the nonnegative count txPackets - rxPackets
\* and PacketLossRatio is 100 x lost / tx (0 when tx = 0), within [0, 100].
C28_LossIsCountAndPercentage ==
    (pc = "score_loss") =>
        \A i \in 1..Len(flowRows) :
            LET row == flowRows[i]
            IN  /\ row.LostPackets.wraps = 0
                /\ row.LostPackets.rest = row.TxPackets - row.RxPackets
                /\ row.LostPackets.rest >= 0
                /\ row.PacketLossRatio.wraps = 0
                /\ row.PacketLossRatio.rest >= 0
                /\ row.PacketLossRatio.rest <= 100 * row.PacketLossRatio.over
                /\ row.TxPackets = 0 => row.PacketLossRatio.rest = 0

\* with no more packets received than sent the claim holds
C28_HoldsWithoutSurplus ==
    (pc = "score_loss") =>
        \A i \in 1..Len(flowRows) :
            LET row == flowRows[i]
            IN  row.RxPackets <= row.TxPackets =>
                  /\ row.LostPackets = [wraps |-> 0,
                                        rest |-> row.TxPackets - row.RxPackets]
                  /\ row.PacketLossRatio.wraps = 0
                  /\ row.PacketLossRatio.rest >= 0
                  /\ row.PacketLossRatio.rest <= 100 * row.PacketLossRatio.over

---------------------------------------------------------------------------
(* The batch script: one simulation per configuration, one after another *)

\* the configuration arrays of the script
CELL_NUMBERS == <<1, 3, 5, 7, 9>>
SCENARIOS == <<"false", "true">>
SCENARIO_NAMES == <<"sparse", "dense">>
SEEDS == <<1>>
NUM_UES == 30

\* total_sims
TotalSims == Len(CELL_NUMBERS) * Len(SCENARIOS) * Len(SEEDS)

\* what one character read at the prompt can be, the empty reply included
Replies == {"y", "Y", "n", ""}

\* [[ $REPLY =~ ^[Yy]$ ]]
Confirmed(reply) == reply \in {"y", "Y"}

\* --numUEs of one simulation: 50 % more UEs in the dense scenario
UesForScenario(dense_flag) ==
    IF dense_flag = "true" THEN (NUM_UES * 3) \div 2 ELSE NUM_UES

\* verify_output_files: 0 when each of the four expected files exists and is
\* not empty, else 1
VerifyOutputFiles(present) ==
    IF \A f \in Files : f \in present THEN 0 ELSE 1

\* the function returning what the verification of the files returned
RunSingleSimulation_ChecksFiles(exit0, present) ==
    IF exit0 THEN VerifyOutputFiles(present) ELSE 1

\* run_single_simulation: its return status, given whether the simulation
\* process exited with 0 and which output files it left.  The status of
\* verify_output_files is not looked at.
RunSingleSimulation(exit0, present) ==
    IF exit0
    THEN LET verified == VerifyOutputFiles(present)
         IN  0
    ELSE 1

\* the three nested loops with the scenarios outermost
AdvanceLoops_ScenarioMajor(c, sc, sd) ==
    IF sd < Len(SEEDS) THEN [c |-> c, sc |-> sc, sd |-> sd + 1]
    ELSE IF c < Len(CELL_NUMBERS) THEN [c |-> c + 1, sc |-> sc, sd |-> 1]
    ELSE IF sc < Len(SCENARIOS) THEN [c |-> 1, sc |-> sc + 1, sd |-> 1]
    ELSE [c |-> Len(CELL_NUMBERS) + 1, sc |-> 1, sd |-> 1]

\* the three nested for loops: seeds innermost, then scenarios, then cells
AdvanceLoops(c, sc, sd) ==
    IF sd < Len(SEEDS) THEN [c |-> c, sc |-> sc, sd |-> sd + 1]
    ELSE IF sc < Len(SCENARIOS) THEN [c |-> c, sc |-> sc + 1, sd |-> 1]
    ELSE [c |-> c + 1, sc |-> 1, sd |-> 1]

\* the simulation process may fail, or exit with 0 leaving all of its
\* output files or only some of them
SimulationOutcomes ==
    { [exit0 |-> FALSE, present |-> {}],
      [exit0 |-> TRUE, present |-> Files],
      [exit0 |-> TRUE, present |-> Files \ {"flow"}] }

InitBatch ==
    /\ pc = "batch_start"
    /\ numCells = 1
    /\ denseScenario = FALSE
    /\ ISD = PlaceIsd
    /\ baseHeight = PlaceGnbHeight
    /\ gnbPositions = <<>>
    /\ PlaceIdle
    /\ TrafficIdle
    /\ TelemetryIdle
    /\ ScoreIdle
    /\ OutputIdle
    /\ requirementsOk \in BOOLEAN
    /\ REPLY \in Replies
    /\ cellsIdx = 0
    /\ scenarioIdx = 0
    /\ seedIdx = 0
    /\ sim_number = 0
    /\ successful_sims = 0
    /\ failed_sims = 0
    /\ attempted = <<>>

\* what no step of the batch script touches
OutsideBatch ==
    <<layoutVars, placeVars, trafficVars, telemVars, assocVars, scoreVars,
      outputVars, requirementsOk, REPLY>>

\* main: "if ! check_requirements; then exit 1"
BatchCheckRequirements ==
    /\ pc = "batch_start"
    /\ pc' = IF requirementsOk THEN "batch_confirm" ELSE "batch_exit_1"
    /\ UNCHANGED <<OutsideBatch, cellsIdx, scenarioIdx, seedIdx, sim_number,
                   successful_sims, failed_sims, attempted>>

\* main: the plan is shown, the reply is read, and either the script exits
\* with 0 or the counters are set up and the loops are entered
BatchConfirm ==
    /\ pc = "batch_confirm"
    /\ IF Confirmed(REPLY)
       THEN /\ successful_sims' = 0
            /\ failed_sims' = 0
            /\ sim_number' = 1
            /\ cellsIdx' = 1
            /\ scenarioIdx' = 1
            /\ seedIdx' = 1
            /\ pc' = "batch_loop"
       ELSE /\ pc' = "batch_cancelled"
            /\ UNCHANGED <<cellsIdx, scenarioIdx, seedIdx, sim_number,
                           successful_sims, failed_sims>>
    /\ UNCHANGED <<OutsideBatch, attempted>>

\* lines 336-344 and 98-162: the loop headers hold, run_single_simulation is
\* called and starts the simulation process with eval; the script waits
BatchStartSimulation ==
    /\ pc = "batch_loop"
    /\ cellsIdx <= Len(CELL_NUMBERS)
    /\ LET dense == SCENARIOS[scenarioIdx]
       IN  attempted' =
             Append(attempted,
                    [cells |-> CELL_NUMBERS[cellsIdx],
                     dense |-> dense,
                     name |-> SCENARIO_NAMES[scenarioIdx],
                     seed |-> SEEDS[seedIdx],
                     ues |-> UesForScenario(dense),
                     number |-> sim_number,
                     finished |-> FALSE,
                     exit0 |-> FALSE,
                     present |-> {},
                     success |-> FALSE])
    /\ pc' = "batch_running"
    /\ UNCHANGED <<OutsideBatch, cellsIdx, scenarioIdx, seedIdx, sim_number,
                   successful_sims, failed_sims>>

\* lines 162-183 and 344-360: the simulation process has exited;
\* run_single_simulation returns, the simulation is counted, the progress is
\* shown and sim_number is incremented
BatchRunSimulation ==
    /\ pc = "batch_running"
    /\ \E outcome \in SimulationOutcomes :
         LET status == RunSingleSimulation(outcome.exit0, outcome.present)
         IN  /\ IF status = 0
                THEN /\ successful_sims' = successful_sims + 1
                     /\ UNCHANGED failed_sims
                ELSE /\ failed_sims' = failed_sims + 1
                     /\ UNCHANGED successful_sims
             /\ attempted' =
                  [attempted EXCEPT ![Len(attempted)] =
                      [@ EXCEPT !.finished = TRUE,
                                !.exit0 = outcome.exit0,
                                !.present = outcome.present,
                                !.success = (status = 0)]]
    /\ sim_number' = sim_number + 1
    /\ pc' = "batch_pause"
    /\ UNCHANGED <<OutsideBatch, cellsIdx, scenarioIdx, seedIdx>>

\* lines 362-370: the pause of 5 seconds (none after the last simulation) is
\* over and the for loops move on
BatchNextConfiguration ==
    /\ pc = "batch_pause"
    /\ LET next == AdvanceLoops(cellsIdx, scenarioIdx, seedIdx)
       IN  /\ cellsIdx' = next.c
           /\ scenarioIdx' = next.sc
           /\ seedIdx' = next.sd
    /\ pc' = "batch_loop"
    /\ UNCHANGED <<OutsideBatch, sim_number, successful_sims, failed_sims,
                   attempted>>

\* the loops are over: final summary, consolidation script
BatchFinish ==
    /\ pc = "batch_loop"
    /\ cellsIdx > Len(CELL_NUMBERS)
    /\ pc' = "batch_done"
    /\ UNCHANGED <<OutsideBatch, cellsIdx, scenarioIdx, seedIdx, sim_number,
                   successful_sims, failed_sims, attempted>>

NextBatch ==
    \/ BatchCheckRequirements
    \/ BatchConfirm
    \/ BatchStartSimulation
    \/ BatchRunSimulation
    \/ BatchNextConfiguration
    \/ BatchFinish

SpecBatch == InitBatch /\ [][NextBatch]_vars

---------------------------------------------------------------------------
(* C29: the batch attempts every configuration once, in order *)

\* the k-th configuration of CELL_NUMBERS x SCENARIOS x SEEDS, cells-major,
\* then the scenarios in the order sparse, dense, then the seeds
ExpectedConfig(k) ==
    LET perCell == Len(SCENARIOS) * Len(SEEDS)
        ci == ((k - 1) \div perCell) + 1
        si == (((k - 1) \div Len(SEEDS)) % Len(SCENARIOS)) + 1
        di == ((k - 1) % Len(SEEDS)) + 1
    IN  [cells |-> CELL_NUMBERS[ci], dense |-> SCENARIOS[si],
         name |-> SCENARIO_NAMES[si], seed |-> SEEDS[di]]

ConfigOf(a) ==
    [cells |-> a.cells, dense |-> a.dense, name |-> a.name, seed |-> a.seed]

\* the simulations attempted so far are the first configurations, in order
AttemptedInOrder ==
    /\ Len(attempted) <= TotalSims
    /\ \A k \in 1..Len(attempted) :
         /\ ConfigOf(attempted[k]) = ExpectedConfig(k)
         /\ attempted[k].number = k

\* no configuration is attempted twice
AttemptedOnce ==
    \A j, k \in 1..Len(attempted) :
        ConfigOf(attempted[j]) = ConfigOf(attempted[k]) => j = k

\* the simulations whose process has exited
Finished == { k \in 1..Len(attempted) : attempted[k].finished }

\* every simulation that has ended is counted, as a success or as a failure,
\* and only the one started last can still be running
CountersAddUp ==
    /\ successful_sims + failed_sims = Cardinality(Finished)
    /\ \A k \in 1..(Len(attempted) - 1) : attempted[k].finished
    /\ (attempted # <<>> /\ ~attempted[Len(attempted)].finished)
          <=> pc = "batch_running"

\* the loops are left only after the last configuration
BatchGoesOn ==
    /\ (pc = "batch_loop" /\ Len(attempted) < TotalSims)
          => ENABLED BatchStartSimulation
    /\ pc = "batch_done"
          => /\ Len(attempted) = TotalSims
             /\ successful_sims + failed_sims = TotalSims

\* without the requirements or without the reply y/Y nothing is started
NothingStartedUnlessConfirmed ==
    (~requirementsOk \/ ~Confirmed(REPLY)) => attempted = <<>>

\* one step starts at most one simulation, and a failure leaves the script
\* in its loops
OneAtATime ==
    /\ Len(attempted') <= Len(attempted) + 1
    /\ Len(attempted') > Len(attempted) =>
          \A k \in 1..Len(attempted) : attempted[k].finished
    /\ failed_sims' > failed_sims => pc' = "batch_pause"
    /\ pc = "batch_pause" => pc' = "batch_loop"

\* C29: once the requirements check has passed and the user has answered y
\* or Y, the batch script attempts the configurations of CELL_NUMBERS x
\* SCENARIOS x SEEDS one at a time, each exactly once, in the order
\* cells-major, sparse before dense, then seed; a failed simulation does not
\* stop the batch, and at the end successful_sims + failed_sims =
\* total_sims.  When the requirements check fails or the reply is not y or
\* Y, no simulation is started.
C29_EveryConfigurationOnceInOrder ==
    /\ [](AttemptedInOrder /\ AttemptedOnce /\ CountersAddUp
            /\ BatchGoesOn /\ NothingStartedUnlessConfirmed)
    /\ [][OneAtATime]_vars

\* a finished batch in which some simulations failed and others did not
C29_Witness ==
    /\ pc = "batch_done"
    /\ Len(attempted) = TotalSims
    /\ attempted[1].success = FALSE
    /\ attempted[2].success = TRUE
    /\ failed_sims > 1
    /\ attempted[TotalSims].cells = 9
    /\ attempted[TotalSims].dense = "true"

\* a script that stopped before its loops: the requirements were not met,
\* or the reply was not y or Y
C29_NothingStarted ==
    /\ pc \in {"batch_exit_1", "batch_cancelled"}
    /\ attempted = <<>>

---------------------------------------------------------------------------
(* C30: what the batch script counts as a successful simulation *)

AllFilesOk(a) == \A f \in Files : f \in a.present

\* the attempts whose process exited with 0 and left its four files
SoundAttempts ==
    { k \in Finished : attempted[k].exit0 /\ AllFilesOk(attempted[k]) }

\* C30: a simulation is counted in successful_sims only when its four
\* output files (the flow, cell and system CSVs and the configuration text)
\* exist and are not empty; a run that exits with 0 while
\* verify_output_files finds a file missing or empty is counted in
\* failed_sims.
C30_SuccessNeedsAllFiles ==
    /\ \A k \in Finished :
         attempted[k].success <=>
             RunSingleSimulation_ChecksFiles(attempted[k].exit0,
                                             attempted[k].present) = 0
    /\ successful_sims = Cardinality(SoundAttempts)
    /\ failed_sims = Cardinality(Finished) - Cardinality(SoundAttempts)

\* what the script does count: the exit status of the process alone
C30_SuccessIsExitStatus ==
    /\ \A k \in Finished :
         attempted[k].success <=> attempted[k].exit0
    /\ successful_sims =
         Cardinality({ k \in Finished : attempted[k].exit0 })

=============================================================================
